---- MODULE Spec2Model ----
(***************************************************************************)
(* RaBbLE: the capture thread (AudioHandler), the transcriber thread       *)
(* (AbstractTranscriber) and the word display (WordDisplayManager), as a   *)
(* state machine.  Samples are signed 16-bit integers, audio on the        *)
(* transcription path is a sequence of bytes (little-endian int16), text   *)
(* is a sequence of one-character strings.                                 *)
(***************************************************************************)
EXTENDS Integers, Sequences, FiniteSets, TLC

(***************************************************************************)
(* Bounds of the model.                                                    *)
(***************************************************************************)
\* frames the PCM source yields in one run
MaxFrames == 3
\* samples per frame (AudioHandler.chunk_size), kept small
chunk_size == 1
\* samples per second (AbstractTranscriber.sample_rate), kept small
sample_rate == 4

\* characters of a fragment of text
MaxTextLen == 5
\* deque(maxlen=transcription_history_size), kept small
transcription_history_size == 3

\* the clock stops here (milliseconds)
MaxTicks == 600
\* fragments a caller hands to the word display in one run
MaxFragments == 3
\* bytes waiting in audio_buffer when a catch-up burst starts
MaxBufferBytes == 8
\* pixels per character of the font (font.render(word).get_width())
CharWidth == 150

\* the 16-bit samples the PCM source may yield
RawSamples == {-3, 30000}
\* the characters of text: two letters and the space
Chars == {"a", "b", " "}
\* the words a history may hold when a fragment arrives
HistoryWords == {<<"a">>, <<"b">>, <<"a", "b">>}
\* the values cleanup_strategy may be configured to
Strategies == {"simple_deduplication", "none", "aggressive"}
\* interval_seconds and overlap_seconds as fractions <<numerator, denominator>>
IntervalChoices == {<<1, 2>>, <<3, 4>>}
OverlapChoices == {<<0, 1>>, <<1, 4>>, <<1, 2>>}

(***************************************************************************)
(* Program constants.                                                      *)
(***************************************************************************)
\* gain_factor = 1.5 = GainNum / GainDen
GainNum == 3
GainDen == 2
\* queue.Queue(maxsize=2)
AnimationQueueMaxsize == 2
\* WordDisplayManager: pixels, pixels per second, milliseconds
screen_width == 800
word_spacing == 10
scroll_speed == 70
word_display_interval_ms == 150
text_start_offset == 50
\* Eye: milliseconds
DefaultBlinkInterval == 1000
blink_close_duration == 75
blink_pause_duration == 50
blink_open_duration == 150

VARIABLES
    \* configuration of the run
    interval_seconds,        \* <<num, den>>
    overlap_seconds,         \* <<num, den>>
    gain_factor,             \* AudioHandler.gain_factor as <<num, den>>
    \* AudioHandler
    a_pc,                    \* position of AudioHandler.run
    animation_queue,         \* queue.Queue(maxsize=2) of normalized frames
    transcription_queue,     \* queue.Queue() of byte chunks
    model_loaded_event,      \* threading.Event
    \* AbstractTranscriber
    t_pc,                    \* position of AbstractTranscriber.run
    audio_buffer,            \* bytearray
    audio_np,                \* the float window handed to the engine
    cleanup_strategy,        \* configuration: the name of the strategy
    transcription_history,   \* deque(maxlen=transcription_history_size) of words
    text,                    \* the fragment returned by the engine
    cleaned_text,            \* the result of _apply_cleanup_strategy(text)
    d_pc,                    \* position of the caller of _apply_cleanup_strategy
    recleaned,               \* the result of filtering cleaned_text once more
    log_lines,               \* the lines appended to the transcription log
    \* WordDisplayManager
    wdm_version,             \* which of the two WordDisplayManager classes runs
    pending_display_words,   \* deque of words waiting to be displayed
    active_display_words,    \* deque of {text, x, width}, x and width in 1/1000 pixel
    last_word_display_time,  \* milliseconds
    add_words,               \* add_transcribed_text: the words still to append
    transcribed_text_queue,  \* queue.Queue() of fragments (the queued version)
    transcriber_ready_event, \* threading.Event (the queued version)
    llm_agent_output_queue,  \* queue.Queue() of responses (the queued version)
    llm_response_display_queue, \* deque of response words (the queued version)
    ticks,                   \* pygame.time.get_ticks(), milliseconds
    \* the loops and the main thread
    a_running,               \* AudioHandler._running
    t_running,               \* AbstractTranscriber._running
    l_pc,                    \* position of AbstractLLMAgent.run
    l_running,               \* AbstractLLMAgent._running
    normalized_data,         \* main: the sample the face is drawn with
    shown,                   \* what the last WordDisplayManager.draw has drawn
    paused,                  \* transcriber.paused, toggled by the operator (key p)
    stream,                  \* AudioHandler.stream: "none", "open" or "closed"
    m_pc,                    \* position of the main loop in its iteration
    \* ConfigLoader
    config,                  \* ConfigLoader.config: the merged mapping
    key,                     \* the dotted key get() is called with
    default,                 \* the default get() is called with
    get_result,              \* what get() returned
    c_pc,                    \* "idle", "call", "returned" or the exception raised
    \* AbstractLLMAgent
    llm_agent_input_queue,   \* queue.Queue() of queries
    \* Eye
    blink_state,             \* "IDLE", "CLOSING", "PAUSED" or "OPENING"
    blink_start_time,        \* milliseconds
    last_blink_time,         \* milliseconds
    blink_interval,          \* milliseconds
    \* history variables (not program state)
    frames_read,             \* number of frames the PCM source has yielded
    amplified,               \* the amplified frames handed to transcription_queue.put, in order
    windows,                 \* the windows cut from audio_buffer, in cut order
    burst,                   \* the windows cut since the queue was last polled
    forwarded,               \* the fragments handed to the word display, in order
    released,                \* the words released to the active list: <<word, time>>
    warmup,                  \* how the warm-up inference ended: "none", "ok", "raised"
    stop_called,             \* the components whose stop() has been called
    release_calls,           \* the handles AudioHandler.run has released, in call order
    llm_taken                \* the queries the agent has taken: <<query, outcome>>, in order

audioVars == <<a_pc, animation_queue, transcription_queue, frames_read, amplified>>
transVars == <<t_pc, audio_buffer, audio_np, windows, burst>>
textVars == <<transcription_history, text, cleaned_text>>
dedupVars == <<d_pc, recleaned>>
uiVars == <<pending_display_words, active_display_words, last_word_display_time, ticks,
            released>>
queuedVars == <<transcribed_text_queue, transcriber_ready_event, llm_agent_output_queue,
                llm_response_display_queue>>
fwdVars == <<add_words, forwarded, log_lines>>
dispVars == <<uiVars, queuedVars, fwdVars>>
cfgVars == <<interval_seconds, overlap_seconds, cleanup_strategy, wdm_version, gain_factor>>
lookupVars == <<config, key, default, get_result, c_pc>>
agentVars == <<llm_agent_input_queue, llm_taken>>
eyeVars == <<blink_state, blink_start_time, last_blink_time, blink_interval>>
sideVars == <<lookupVars, agentVars, eyeVars>>
runVars == <<a_running, t_running, l_running, stop_called>>
llmVars == <<l_pc>>
mainVars == <<normalized_data, shown, paused, m_pc>>
devVars == <<stream, release_calls>>
lifeVars == <<runVars, llmVars, mainVars, warmup, devVars>>
vars == <<cfgVars, sideVars, audioVars, model_loaded_event, transVars, textVars, dedupVars, dispVars,
          lifeVars>>

(***************************************************************************)
(* Arithmetic and sequences.                                               *)
(***************************************************************************)
\* int(): truncation toward zero of n / d, d > 0
Trunc(n, d) == IF n >= 0 THEN n \div d ELSE -((-n) \div d)

Min(a, b) == IF a <= b THEN a ELSE b
Max(a, b) == IF a >= b THEN a ELSE b

RECURSIVE Flatten(_)
Flatten(ss) == IF ss = <<>> THEN <<>> ELSE Head(ss) \o Flatten(Tail(ss))

\* Python s[i:] for any integer i
PySliceFrom(s, i) ==
    LET start == IF i < 0 THEN Max(Len(s) + i, 0) ELSE Min(i, Len(s))
    IN SubSeq(s, start + 1, Len(s))

\* Python s[:n] for n >= 0
PySliceTo(s, n) == SubSeq(s, 1, Min(n, Len(s)))

(***************************************************************************)
(* 16-bit PCM.                                                             *)
(***************************************************************************)
Int16Min == -32768
Int16Max == 32767
InInt16(v) == Int16Min <= v /\ v <= Int16Max

\* two's-complement reduction to the int16 range
Wrap16(v) == LET u == v % 65536 IN IF u > Int16Max THEN u - 65536 ELSE u
Clip16(v) == IF v < Int16Min THEN Int16Min ELSE IF v > Int16Max THEN Int16Max ELSE v

\* ndarray.astype(np.int16) of a float: truncation toward zero; for a value
\* outside the int16 range the C conversion is undefined, and the builds in
\* use either reduce modulo 2^16 or saturate
CastInt16(v) == IF InInt16(v) THEN {v} ELSE {Wrap16(v), Clip16(v)}

\* (data * gain_factor).astype(np.int16), one sample: the possible results
AmplifySample(s) == CastInt16(Trunc(s * gain_factor[1], gain_factor[2]))

\* ndarray.tobytes() of one int16, little-endian
SampleBytes(v) == LET u == v % 65536 IN <<u % 256, u \div 256>>

RECURSIVE ToBytes(_)
ToBytes(samples) ==
    IF samples = <<>> THEN <<>> ELSE SampleBytes(Head(samples)) \o ToBytes(Tail(samples))

\* np.frombuffer(chunk, dtype=np.int16): pairs of bytes to samples
RECURSIVE FromBuffer(_)
FromBuffer(bytes) ==
    IF Len(bytes) < 2 THEN <<>>
    ELSE <<Wrap16(bytes[1] + 256 * bytes[2])>> \o FromBuffer(SubSeq(bytes, 3, Len(bytes)))

\* the frames the PCM source may yield: chunk_size samples each
Frames == [1..chunk_size -> RawSamples]

\* the possible amplified frames of a raw frame
AmplifiedFrames(frame) ==
    {a \in [1..Len(frame) -> UNION {AmplifySample(frame[i]) : i \in 1..Len(frame)}] :
        \A i \in 1..Len(frame) : a[i] \in AmplifySample(frame[i])}

(***************************************************************************)
(* Text: str.split(), " ".join(), str.strip().                             *)
(***************************************************************************)
\* str.split() with no argument: the maximal runs of non-space characters
RECURSIVE SplitLoop(_, _, _)
SplitLoop(chars, word, words) ==
    IF chars = <<>> THEN (IF word = <<>> THEN words ELSE Append(words, word))
    ELSE IF Head(chars) = " "
         THEN SplitLoop(Tail(chars), <<>>, IF word = <<>> THEN words ELSE Append(words, word))
         ELSE SplitLoop(Tail(chars), Append(word, Head(chars)), words)

Split(txt) == SplitLoop(txt, <<>>, <<>>)

\* " ".join(words)
RECURSIVE Join(_)
Join(words) ==
    IF words = <<>> THEN <<>>
    ELSE IF Len(words) = 1 THEN Head(words)
    ELSE Head(words) \o <<" ">> \o Join(Tail(words))

\* str.strip(): without the leading and the trailing spaces
RECURSIVE LStrip(_)
LStrip(txt) == IF txt # <<>> /\ Head(txt) = " " THEN LStrip(Tail(txt)) ELSE txt
RECURSIVE RStrip(_)
RStrip(txt) ==
    IF txt # <<>> /\ txt[Len(txt)] = " " THEN RStrip(SubSeq(txt, 1, Len(txt) - 1)) ELSE txt
Strip(txt) == RStrip(LStrip(txt))

(***************************************************************************)
(* AbstractTranscriber._apply_cleanup_strategy and                         *)
(* AbstractTranscriber._update_transcription_history                       *)
(***************************************************************************)
\* for i in range(i, n + 1): if list(history)[-i:] == words[:i]: best = i
RECURSIVE FirstMatchLoop(_, _, _, _)
FirstMatchLoop(history, words, i, n) ==
    IF i > n THEN 0
    ELSE IF PySliceFrom(history, -i) = PySliceTo(words, i) THEN i
    ELSE FirstMatchLoop(history, words, i + 1, n)

RECURSIVE BestMatchLoop(_, _, _, _, _)
BestMatchLoop(history, words, i, n, best) ==
    IF i > n THEN best
    ELSE BestMatchLoop(history, words, i + 1, n,
                       IF PySliceFrom(history, -i) = PySliceTo(words, i) THEN i ELSE best)

\* best_match_len after the loop
BestMatchLenFirst(history, words) ==
    FirstMatchLoop(history, words, 1, Min(Len(words), Len(history)))
BestMatchLenShortRange(history, words) ==
    BestMatchLoop(history, words, 1, Min(Len(words), Len(history)) - 1, 0)
BestMatchLen(history, words) ==
    BestMatchLoop(history, words, 1, Min(Len(words), Len(history)), 0)

\* _apply_cleanup_strategy(text) with the history and the strategy of self
ApplyCleanupDropsOneMore(txt, history, strategy) ==
    IF strategy = "simple_deduplication"
    THEN Strip(Join(PySliceFrom(Split(txt), BestMatchLen(history, Split(txt)) + 1)))
    ELSE txt
ApplyCleanupStrategyAnyName(txt, history, strategy) ==
    IF strategy # "none"
    THEN Strip(Join(PySliceFrom(Split(txt), BestMatchLen(history, Split(txt)))))
    ELSE txt
ApplyCleanupStrategy(txt, history, strategy) ==
    IF strategy = "simple_deduplication"
    THEN LET words_in_text == Split(txt)
             best_match_len == BestMatchLen(history, words_in_text)
         IN Strip(Join(PySliceFrom(words_in_text, best_match_len)))
    ELSE txt

\* deque(maxlen=n).extend(words): the last n of the old and the new words
DequeExtend(history, words, n) == PySliceFrom(history \o words, -n)
\* Python s[-0:] is all of s: a deque of maxlen 0 stays empty
DequeExtendBounded(history, words, n) == IF n = 0 THEN <<>> ELSE DequeExtend(history, words, n)

\* _update_transcription_history(new_text)
UpdateTranscriptionHistory(history, new_text) ==
    DequeExtendBounded(history, Split(new_text), transcription_history_size)

(***************************************************************************)
(* Configuration derived in AbstractTranscriber.run.                       *)
(***************************************************************************)
interval_buffer_size == Trunc(sample_rate * interval_seconds[1], interval_seconds[2]) * 2
overlap_buffer_size == Trunc(sample_rate * overlap_seconds[1], overlap_seconds[2]) * 2

(***************************************************************************)
(* AudioHandler.run                                                        *)
(***************************************************************************)
\* run() up to the loop: _running = True, the stream is opened
AudioStart ==
    /\ a_pc = "start"
    /\ a_running' = TRUE
    /\ stream' = "open"
    /\ a_pc' = "loop"
    /\ UNCHANGED <<animation_queue, transcription_queue, frames_read, amplified>>
    /\ UNCHANGED <<t_running, l_running, stop_called, llmVars, mainVars, warmup, release_calls>>
    /\ UNCHANGED <<cfgVars, sideVars, model_loaded_event, transVars, textVars, dedupVars, dispVars>>

\* run() up to the loop when self.p.open(...) raises (no input device): the
\* exception leaves run() at line 31 and the thread ends
AudioOpenFails ==
    /\ a_pc = "start"
    /\ a_running' = TRUE
    /\ a_pc' = "open_failed"
    /\ UNCHANGED <<animation_queue, transcription_queue, frames_read, amplified>>
    /\ UNCHANGED <<t_running, l_running, stop_called, llmVars, mainVars, warmup, devVars>>
    /\ UNCHANGED <<cfgVars, sideVars, model_loaded_event, transVars, textVars, dedupVars, dispVars>>

\* normalized_data = np.frombuffer(raw_data, dtype=np.int16) / (2.**15), kept
\* as the numerators over 32768: the raw samples, not the amplified ones
NormalizedAfterGain(frame) ==
    [i \in 1..Len(frame) |-> Trunc(frame[i] * gain_factor[1], gain_factor[2])]
NormalizedData(frame) == frame

\* the animation offer: put_nowait unless the queue is full
AnimationOfferUnbounded(q, normalized) == Append(q, normalized)
AnimationOffer(q, normalized) ==
    IF Len(q) < AnimationQueueMaxsize THEN Append(q, normalized) ELSE q

\* transcription_queue.put(bytes): the queue is unbounded
TranscriptionPutDropOnFull(q, bytes) == IF Len(q) < 1 THEN Append(q, bytes) ELSE q
TranscriptionPut(q, bytes) == Append(q, bytes)

\* if self.model_loaded_event.is_set()
ReadyIgnored == TRUE
ReadyObserved == model_loaded_event

\* one iteration of the capture loop that reads `frame`
AudioCapture(frame) ==
    /\ a_pc = "loop"
    /\ a_running
    /\ frames_read < MaxFrames
    /\ frames_read' = frames_read + 1
    \* normalized_data = data / 2**15: kept as the numerators over 32768
    /\ animation_queue' = AnimationOffer(animation_queue, NormalizedData(frame))
    /\ IF ReadyObserved
       THEN \E amp \in AmplifiedFrames(frame) :
                /\ transcription_queue' = TranscriptionPut(transcription_queue, ToBytes(amp))
                /\ amplified' = amplified \o ToBytes(amp)
       ELSE UNCHANGED <<transcription_queue, amplified>>
    /\ UNCHANGED a_pc
    /\ UNCHANGED <<lifeVars, cfgVars, sideVars, model_loaded_event, transVars, textVars, dedupVars, dispVars>>

\* stream.read raises IOError: the message is printed, nothing is put on
\* either queue, the loop goes on
AudioReadError ==
    /\ a_pc = "loop"
    /\ a_running
    /\ frames_read < MaxFrames
    /\ frames_read' = frames_read + 1
    /\ UNCHANGED <<a_pc, animation_queue, transcription_queue, amplified>>
    /\ UNCHANGED <<lifeVars, cfgVars, sideVars, model_loaded_event, transVars, textVars, dedupVars, dispVars>>

\* except Exception: _running = False
RunningAfterUnexpectedResumes == TRUE
RunningAfterUnexpected == FALSE

\* an exception that is neither IOError nor queue.Full is raised in the
\* iteration, by the read (nothing was offered) or after the animation offer
AudioUnexpected(frame, offered) ==
    /\ a_pc = "loop"
    /\ a_running
    /\ frames_read < MaxFrames
    /\ frames_read' = frames_read + 1
    /\ animation_queue' =
           IF offered THEN AnimationOffer(animation_queue, NormalizedData(frame))
           ELSE animation_queue
    /\ a_running' = RunningAfterUnexpected
    /\ UNCHANGED <<a_pc, transcription_queue, amplified>>
    /\ UNCHANGED <<t_running, l_running, stop_called, llmVars, mainVars, warmup, devVars>>
    /\ UNCHANGED <<cfgVars, sideVars, model_loaded_event, transVars, textVars, dedupVars, dispVars>>

\* if self.stream: stop_stream(), close(); then p.terminate()
Release(s, calls) ==
    (IF s = "open" THEN calls \o <<"stream">> ELSE calls) \o <<"backend">>

\* the loop test fails: stream.stop_stream(), stream.close(), p.terminate()
AudioExit ==
    /\ a_pc = "loop"
    /\ ~a_running
    /\ a_pc' = "closed"
    /\ release_calls' = Release(stream, release_calls)
    /\ stream' = IF stream = "open" THEN "closed" ELSE stream
    /\ UNCHANGED <<animation_queue, transcription_queue, frames_read, amplified>>
    /\ UNCHANGED <<runVars, llmVars, mainVars, warmup>>
    /\ UNCHANGED <<cfgVars, sideVars, model_loaded_event, transVars, textVars, dedupVars, dispVars>>

\* AudioHandler.stop(), called from another thread
AudioStop ==
    /\ "audio" \notin stop_called
    /\ stop_called' = stop_called \cup {"audio"}
    /\ a_running' = FALSE
    /\ UNCHANGED <<t_running, l_running, llmVars, mainVars, warmup, devVars>>
    /\ UNCHANGED <<cfgVars, sideVars, audioVars, model_loaded_event, transVars, textVars, dedupVars, dispVars>>

(***************************************************************************)
(* AbstractTranscriber.run                                                 *)
(***************************************************************************)
\* _load_model() returns, or raises: the exception leaves run() and the
\* thread ends
TranscriberLoad(ok) ==
    /\ t_pc = "load"
    /\ t_pc' = IF ok THEN "warmup" ELSE "failed"
    /\ UNCHANGED <<audio_buffer, audio_np, windows, burst>>
    /\ UNCHANGED <<lifeVars, cfgVars, sideVars, audioVars, model_loaded_event, textVars, dedupVars, dispVars>>

\* the warm-up inference returns or raises; then model_loaded_event.set()
\* and _running = True
TranscriberReadyOnlyIfOk(raised) ==
    /\ t_pc = "warmup"
    /\ warmup' = IF raised THEN "raised" ELSE "ok"
    /\ model_loaded_event' = ~raised
    /\ t_running' = ~raised
    /\ t_pc' = IF raised THEN "failed" ELSE "drain"
    /\ UNCHANGED <<audio_buffer, audio_np, windows, burst>>
    /\ UNCHANGED <<a_running, l_running, stop_called, llmVars, mainVars, devVars>>
    /\ UNCHANGED <<cfgVars, sideVars, audioVars, textVars, dedupVars, dispVars>>
TranscriberReady(raised) ==
    /\ t_pc = "warmup"
    /\ warmup' = IF raised THEN "raised" ELSE "ok"
    /\ model_loaded_event' = TRUE
    /\ t_running' = TRUE
    /\ t_pc' = "drain"
    /\ UNCHANGED <<audio_buffer, audio_np, windows, burst>>
    /\ UNCHANGED <<a_running, l_running, stop_called, llmVars, mainVars, devVars>>
    /\ UNCHANGED <<cfgVars, sideVars, audioVars, textVars, dedupVars, dispVars>>

\* while self._running: the next iteration, or the end of run()
NextIterationSkipsPoll == IF t_running THEN "wait" ELSE "exited"
NextIteration == IF t_running THEN "drain" ELSE "exited"
\* except Exception: print(...), then the loop test
EngineErrorBreaks == "exited"
EngineErrorNext == NextIteration

\* audio_buffer.extend(transcription_queue.get_nowait())
DrainChunk(buffer, q) == buffer \o Head(q)

TranscriberDrain ==
    /\ t_pc = "drain"
    /\ transcription_queue # <<>>
    /\ audio_buffer' = DrainChunk(audio_buffer, transcription_queue)
    /\ transcription_queue' = Tail(transcription_queue)
    /\ burst' = 0
    /\ UNCHANGED <<t_pc, audio_np, windows>>
    /\ UNCHANGED <<lifeVars, cfgVars, sideVars, a_pc, animation_queue, frames_read, amplified, model_loaded_event>>
    /\ UNCHANGED <<textVars, dedupVars, dispVars>>

\* the queue is found empty: enough data for a window, or the short wait
TranscriberDrained ==
    /\ t_pc = "drain"
    /\ transcription_queue = <<>>
    /\ t_pc' = IF Len(audio_buffer) >= interval_buffer_size THEN "cut" ELSE "wait"
    /\ burst' = 0
    /\ UNCHANGED <<audio_buffer, audio_np, windows>>
    /\ UNCHANGED <<lifeVars, cfgVars, sideVars, audioVars, model_loaded_event, textVars, dedupVars, dispVars>>

\* threading.Event().wait(0.01), then the next iteration of the loop
TranscriberWait ==
    /\ t_pc = "wait"
    /\ t_pc' = NextIteration
    /\ UNCHANGED <<audio_buffer, audio_np, windows, burst>>
    /\ UNCHANGED <<lifeVars, cfgVars, sideVars, audioVars, model_loaded_event, textVars, dedupVars, dispVars>>

\* chunk_to_transcribe = audio_buffer[:interval_buffer_size]
CutNewestBytes(buffer) == PySliceFrom(buffer, -interval_buffer_size)
CutWindow(buffer) == PySliceTo(buffer, interval_buffer_size)
\* audio_buffer = audio_buffer[interval_buffer_size - overlap_buffer_size:]
RetainOneSampleMore(buffer) ==
    PySliceFrom(buffer, interval_buffer_size - overlap_buffer_size - 2)
RetainOverlapClamped(buffer) ==
    PySliceFrom(buffer, Max(interval_buffer_size - overlap_buffer_size, 0))
RetainOverlap(buffer) == PySliceFrom(buffer, interval_buffer_size - overlap_buffer_size)

\* while len(self.audio_buffer) >= interval_buffer_size: the inner loop goes
\* on, or the engine is called
AfterCutOnce(buffer) == "transcribe"
AfterCut(buffer) == IF Len(buffer) >= interval_buffer_size THEN "cut" ELSE "transcribe"

\* audio_np is assigned in every iteration of the inner loop: the engine is
\* handed the window cut last
WindowOfFirstCut(np, window, cut_before) == IF cut_before = 0 THEN FromBuffer(window) ELSE np
WindowForEngine(np, window, cut_before) == FromBuffer(window)

\* one iteration of the inner catch-up loop
TranscriberCut ==
    /\ t_pc = "cut"
    /\ Len(audio_buffer) >= interval_buffer_size
    /\ windows' = Append(windows, CutWindow(audio_buffer))
    /\ burst' = burst + 1
    /\ audio_buffer' = RetainOverlap(audio_buffer)
    \* np.frombuffer(chunk, int16).astype(float32) / 32768.0: numerators over 32768
    /\ audio_np' = WindowForEngine(audio_np, CutWindow(audio_buffer), burst)
    /\ t_pc' = AfterCut(audio_buffer')
    /\ UNCHANGED <<lifeVars, cfgVars, sideVars, audioVars, model_loaded_event, textVars, dedupVars, dispVars>>

\* WordDisplayManager.add_transcribed_text, one iteration of its loop:
\* pending_display_words.append(word)
AppendPendingFront(pending, word) == <<word>> \o pending
AppendPending(pending, word) == Append(pending, word)

AddTranscribedWord ==
    /\ add_words # <<>>
    /\ pending_display_words' = AppendPending(pending_display_words, Head(add_words))
    /\ add_words' = Tail(add_words)
    /\ UNCHANGED <<active_display_words, last_word_display_time, ticks, released>>
    /\ UNCHANGED <<forwarded, log_lines, queuedVars>>
    /\ UNCHANGED <<lifeVars, cfgVars, sideVars, audioVars, model_loaded_event, transVars, textVars, dedupVars>>

\* what one call of the engine may do: raise, or return a text
Outcome(raised, txt) == [raised |-> raised, text |-> txt]

\* text = self._transcribe_audio(audio_np); if text: cleaned_text = ...;
\* if cleaned_text: self.word_display_manager.add_transcribed_text(cleaned_text)
TranscriberTranscribe(outcome) ==
    /\ t_pc = "transcribe"
    /\ IF outcome.raised
       THEN \* except Exception: print, next iteration
            /\ t_pc' = EngineErrorNext
            /\ UNCHANGED <<text, cleaned_text, add_words, forwarded>>
       ELSE /\ text' = outcome.text
            /\ IF text' = <<>>
               THEN /\ t_pc' = NextIteration
                    /\ UNCHANGED <<cleaned_text, add_words, forwarded>>
               ELSE /\ cleaned_text' =
                        ApplyCleanupStrategy(text', transcription_history, cleanup_strategy)
                    /\ IF cleaned_text' = <<>>
                       THEN /\ t_pc' = NextIteration
                            /\ UNCHANGED <<add_words, forwarded>>
                       ELSE /\ t_pc' = "forward"
                            /\ add_words' = Split(cleaned_text')
                            /\ forwarded' = Append(forwarded, cleaned_text')
    /\ UNCHANGED <<audio_buffer, audio_np, windows, burst, transcription_history, log_lines>>
    /\ UNCHANGED <<lifeVars, cfgVars, sideVars, audioVars, model_loaded_event, dedupVars, uiVars, queuedVars>>

\* after add_transcribed_text has returned: the line is appended to the log
\* and the history is updated; when the log cannot be opened or written the
\* exception skips the history update
TranscriberRecord(log_ok) ==
    /\ t_pc = "forward"
    /\ add_words = <<>>
    /\ IF log_ok
       THEN /\ log_lines' = Append(log_lines, cleaned_text \o <<"\n">>)
            /\ transcription_history' =
                   UpdateTranscriptionHistory(transcription_history, cleaned_text)
       ELSE UNCHANGED <<log_lines, transcription_history>>
    /\ t_pc' = NextIteration
    /\ UNCHANGED <<audio_buffer, audio_np, windows, burst, text, cleaned_text, add_words, forwarded>>
    /\ UNCHANGED <<lifeVars, cfgVars, sideVars, audioVars, model_loaded_event, dedupVars, uiVars, queuedVars>>

\* AbstractTranscriber.stop(), called from another thread
TranscriberStopClearsEvent ==
    /\ "transcriber" \notin stop_called
    /\ stop_called' = stop_called \cup {"transcriber"}
    /\ t_running' = FALSE
    /\ model_loaded_event' = FALSE
    /\ UNCHANGED <<a_running, l_running, llmVars, mainVars, warmup, devVars>>
    /\ UNCHANGED <<cfgVars, sideVars, audioVars, transVars, textVars, dedupVars, dispVars>>
TranscriberStop ==
    /\ "transcriber" \notin stop_called
    /\ stop_called' = stop_called \cup {"transcriber"}
    /\ t_running' = FALSE
    /\ UNCHANGED <<a_running, l_running, llmVars, mainVars, warmup, devVars>>
    /\ UNCHANGED <<cfgVars, sideVars, audioVars, model_loaded_event, transVars, textVars, dedupVars, dispVars>>

(***************************************************************************)
(* AbstractLLMAgent.run                                                    *)
(***************************************************************************)
\* run() up to the loop: _running = True
LlmStart ==
    /\ l_pc = "start"
    /\ l_running' = TRUE
    /\ l_pc' = "loop"
    /\ UNCHANGED <<a_running, t_running, stop_called, mainVars, warmup, devVars>>
    /\ UNCHANGED <<cfgVars, sideVars, audioVars, model_loaded_event, transVars, textVars, dedupVars, dispVars>>

\* the loop test holds: the thread blocks in input_queue.get(timeout=0.1)
LlmGet ==
    /\ l_pc = "loop"
    /\ l_running
    /\ l_pc' = "get"
    /\ UNCHANGED <<runVars, mainVars, warmup, devVars>>
    /\ UNCHANGED <<cfgVars, sideVars, audioVars, model_loaded_event, transVars, textVars, dedupVars, dispVars>>

\* the get times out with nothing queued: queue.Empty, the next iteration
LlmEmpty ==
    /\ l_pc = "get"
    /\ llm_agent_input_queue = <<>>
    /\ l_pc' = "loop"
    /\ UNCHANGED <<runVars, mainVars, warmup, devVars>>
    /\ UNCHANGED <<cfgVars, sideVars, audioVars, model_loaded_event, transVars, textVars, dedupVars, dispVars>>

\* the loop test fails: run() returns
LlmExit ==
    /\ l_pc = "loop"
    /\ ~l_running
    /\ l_pc' = "exited"
    /\ UNCHANGED <<runVars, mainVars, warmup, devVars>>
    /\ UNCHANGED <<cfgVars, sideVars, audioVars, model_loaded_event, transVars, textVars, dedupVars, dispVars>>

\* AbstractLLMAgent.stop(), called from another thread
LlmStop ==
    /\ "llm" \notin stop_called
    /\ stop_called' = stop_called \cup {"llm"}
    /\ l_running' = FALSE
    /\ UNCHANGED <<a_running, t_running, llmVars, mainVars, warmup, devVars>>
    /\ UNCHANGED <<cfgVars, sideVars, audioVars, model_loaded_event, transVars, textVars, dedupVars, dispVars>>

(***************************************************************************)
(* The main loop: the animation poll                                       *)
(***************************************************************************)
\* normalized_data = animation_queue.get_nowait(); on queue.Empty the last
\* sample is kept
AnimationGet(q) == Head(q)

AnimationPoll ==
    /\ animation_queue # <<>>
    /\ normalized_data' = AnimationGet(animation_queue)
    /\ animation_queue' = Tail(animation_queue)
    /\ UNCHANGED <<a_pc, transcription_queue, frames_read, amplified>>
    /\ UNCHANGED <<runVars, llmVars, shown, paused, m_pc, warmup, devVars>>
    /\ UNCHANGED <<cfgVars, sideVars, model_loaded_event, transVars, textVars, dedupVars, dispVars>>

(***************************************************************************)
(* WordDisplayManager.update                                               *)
(* Positions and widths are in 1/1000 pixel, so that                       *)
(* scroll_speed * delta_time / 1000.0 is the integer scroll_speed * dt.    *)
(* A position is a Python float: the result of every addition and          *)
(* subtraction is rounded to the nearest number the format has.  The       *)
(* format of the model has a short mantissa, so that its numbers are       *)
(* 1/1000 pixel apart below 256 pixels and twice as far apart with every   *)
(* doubling of the magnitude, as those of a double are at a finer scale.   *)
(***************************************************************************)
\* the distance between neighbouring floats at magnitude a >= 0
RECURSIVE Ulp(_)
Ulp(a) == IF a < 256000 THEN 1 ELSE 2 * Ulp(a \div 2)

\* the float nearest to v, the one with the even mantissa on a tie
RoundFloat(v) ==
    LET u == Ulp(IF v < 0 THEN -v ELSE v)
        q == v \div u
        r == v % u
    IN IF 2 * r < u THEN q * u
       ELSE IF 2 * r > u THEN (q + 1) * u
       ELSE IF q % 2 = 0 THEN q * u ELSE (q + 1) * u

\* font.render(word, ...).get_width()
WordWidth(word) == 1000 * CharWidth * Len(word)

\* where the first word of an empty display starts
Anchor ==
    IF wdm_version = "direct"
    THEN 500 * screen_width + 500 * word_spacing
    ELSE 500 * screen_width + 1000 * text_start_offset

\* pending_display_words and (current_time - last_word_display_time) >= interval
ReleaseDueEarly(pending, current_time) ==
    pending # <<>> /\ (current_time - last_word_display_time) >= word_display_interval_ms - 50
ReleaseDue(pending, current_time) ==
    pending # <<>> /\ (current_time - last_word_display_time) >= word_display_interval_ms

\* active_display_words.append({...}): after the last word, or at the anchor;
\* n is a history field, the number of the release
PlaceWordAtAnchor(active, word, n) ==
    Append(active, [text |-> word, x |-> Anchor, width |-> WordWidth(word), n |-> n])
PlaceWord(active, word, n) ==
    LET new_word_x ==
            IF active = <<>> THEN Anchor
            ELSE RoundFloat(RoundFloat(active[Len(active)].x + active[Len(active)].width)
                            + 1000 * word_spacing)
    IN Append(active, [text |-> word, x |-> new_word_x, width |-> WordWidth(word), n |-> n])

\* word_data['x'] -= scroll_amount, for every active word
ScrollLeft(active, delta_time) ==
    [i \in 1..Len(active) |-> [active[i] EXCEPT !.x = RoundFloat(@ - scroll_speed * delta_time)]]

\* while active and active[0]['x'] + active[0]['width'] < 0: popleft()
RECURSIVE EvictLeft(_)
EvictLeft(active) ==
    IF active # <<>> /\ active[1].x + active[1].width < 0
    THEN EvictLeft(Tail(active)) ELSE active

\* while active and active[-1]['x'] > screen_width: pop()
RECURSIVE EvictRight(_)
EvictRight(active) ==
    IF active # <<>> /\ active[Len(active)].x > 1000 * screen_width
    THEN EvictRight(SubSeq(active, 1, Len(active) - 1)) ELSE active

\* pending -> active: at most one word, when due
ReleaseStep(pending, current_time) ==
    /\ IF ReleaseDue(pending, current_time)
       THEN /\ pending_display_words' = Tail(pending)
            /\ last_word_display_time' = current_time
            /\ released' = Append(released, <<Head(pending), current_time>>)
       ELSE /\ pending_display_words' = pending
            /\ UNCHANGED <<last_word_display_time, released>>

\* the active list after update: the release, the scroll, the two evictions
ActiveAfterUpdate(pending, current_time, delta_time) ==
    LET placed == IF ReleaseDue(pending, current_time)
                  THEN PlaceWord(active_display_words, Head(pending), Len(released) + 1)
                  ELSE active_display_words
    IN EvictRight(EvictLeft(ScrollLeft(placed, delta_time)))

\* one frame of the UI loop, d milliseconds after the previous one:
\* update(delta_time) of src/word_display_manager.py
UiFrameDirect(d) ==
    /\ wdm_version = "direct"
    /\ ticks + d <= MaxTicks
    /\ ticks' = ticks + d
    /\ ReleaseStep(pending_display_words, ticks')
    /\ active_display_words' = ActiveAfterUpdate(pending_display_words, ticks', d)
    /\ UNCHANGED <<queuedVars, fwdVars>>
    /\ UNCHANGED <<lifeVars, cfgVars, sideVars, audioVars, model_loaded_event, transVars, textVars, dedupVars>>

\* the words of the fragments of a queue, in order
RECURSIVE QueuedWords(_)
QueuedWords(q) == IF q = <<>> THEN <<>> ELSE Split(Head(q)) \o QueuedWords(Tail(q))

\* update(delta_time) of src/src/ui/word_display_manager.py
UiFrameQueued(d) ==
    /\ wdm_version = "queued"
    /\ ticks + d <= MaxTicks
    /\ ticks' = ticks + d
    /\ IF ~transcriber_ready_event
       THEN UNCHANGED <<pending_display_words, active_display_words, last_word_display_time,
                        released, transcribed_text_queue, llm_agent_output_queue,
                        llm_response_display_queue>>
       ELSE LET pulled == pending_display_words \o QueuedWords(transcribed_text_queue)
            IN /\ transcribed_text_queue' = <<>>
               /\ llm_response_display_queue' =
                      llm_response_display_queue \o QueuedWords(llm_agent_output_queue)
               /\ llm_agent_output_queue' = <<>>
               /\ ReleaseStep(pulled, ticks')
               /\ active_display_words' = ActiveAfterUpdate(pulled, ticks', d)
    /\ UNCHANGED <<transcriber_ready_event, fwdVars>>
    /\ UNCHANGED <<lifeVars, cfgVars, sideVars, audioVars, model_loaded_event, transVars, textVars, dedupVars>>

\* draw(): the pause test comes first, then the readiness test
DrawMessageReadyFirst(is_paused, ready) ==
    IF ~ready THEN "initializing" ELSE IF is_paused THEN "paused" ELSE "words"
DrawMessage(is_paused, ready) ==
    IF is_paused THEN "paused" ELSE IF ~ready THEN "initializing" ELSE "words"

\* draw(screen, current_time) of src/src/ui/word_display_manager.py: one
\* message or the active words; with the words, one word of the agent's
\* answer is popped when its display interval has elapsed (llm_due)
UiDraw(llm_due) ==
    /\ wdm_version = "queued"
    /\ shown' = DrawMessage(paused, transcriber_ready_event)
    /\ llm_response_display_queue' =
           IF shown' = "words" /\ llm_due /\ llm_response_display_queue # <<>>
           THEN Tail(llm_response_display_queue)
           ELSE llm_response_display_queue
    /\ UNCHANGED <<transcribed_text_queue, transcriber_ready_event, llm_agent_output_queue>>
    /\ UNCHANGED <<uiVars, fwdVars>>
    /\ UNCHANGED <<runVars, llmVars, normalized_data, paused, m_pc, warmup, devVars>>
    /\ UNCHANGED <<cfgVars, sideVars, audioVars, model_loaded_event, transVars, textVars, dedupVars>>

\* key p in the main loop: transcriber.toggle_pause()
TogglePause ==
    /\ wdm_version = "queued"
    /\ paused' = ~paused
    /\ UNCHANGED <<runVars, llmVars, normalized_data, shown, m_pc, warmup, devVars>>
    /\ UNCHANGED <<cfgVars, sideVars, audioVars, model_loaded_event, transVars, textVars, dedupVars, dispVars>>

(***************************************************************************)
(* One iteration of the main loop of src/src/main.py, queue read by queue  *)
(* read: the animation poll, update with its two pull loops, draw.         *)
(***************************************************************************)
\* queue.get_nowait() returns or raises queue.Empty at once; queue.get()
\* waits while the queue is empty
GetBlocking(q) == q # <<>>
GetNowaitReturns(q) == TRUE
GetReturns(q) == q # <<>>

\* try: normalized_data = animation_queue.get_nowait()
\* except queue.Empty: pass
MainPoll ==
    /\ wdm_version = "queued"
    /\ m_pc = "poll"
    /\ GetNowaitReturns(animation_queue)
    /\ IF animation_queue # <<>>
       THEN /\ normalized_data' = AnimationGet(animation_queue)
            /\ animation_queue' = Tail(animation_queue)
       ELSE UNCHANGED <<normalized_data, animation_queue>>
    /\ m_pc' = "update"
    /\ UNCHANGED <<a_pc, transcription_queue, frames_read, amplified>>
    /\ UNCHANGED <<runVars, llmVars, shown, paused, warmup, devVars>>
    /\ UNCHANGED <<cfgVars, sideVars, model_loaded_event, transVars, textVars, dedupVars, dispVars>>

\* update(delta_time) up to its readiness test: it returns, or goes on to
\* the pull loops
MainUpdate(d) ==
    /\ wdm_version = "queued"
    /\ m_pc = "update"
    /\ IF ~transcriber_ready_event
       THEN /\ ticks + d <= MaxTicks
            /\ ticks' = ticks + d
            /\ m_pc' = "draw"
       ELSE /\ m_pc' = "text_test"
            /\ UNCHANGED ticks
    /\ UNCHANGED <<pending_display_words, active_display_words, last_word_display_time, released>>
    /\ UNCHANGED <<queuedVars, fwdVars>>
    /\ UNCHANGED <<runVars, llmVars, normalized_data, shown, paused, warmup, devVars>>
    /\ UNCHANGED <<cfgVars, sideVars, audioVars, model_loaded_event, transVars, textVars, dedupVars>>

\* while not self.transcribed_text_queue.empty()
MainTextTest ==
    /\ m_pc = "text_test"
    /\ m_pc' = IF transcribed_text_queue = <<>> THEN "llm_test" ELSE "text_get"
    /\ UNCHANGED <<runVars, llmVars, normalized_data, shown, paused, warmup, devVars>>
    /\ UNCHANGED <<cfgVars, sideVars, audioVars, model_loaded_event, transVars, textVars, dedupVars, dispVars>>

\* text = self.transcribed_text_queue.get(); the words are appended
MainTextGet ==
    /\ m_pc = "text_get"
    /\ GetReturns(transcribed_text_queue)
    /\ pending_display_words' = pending_display_words \o Split(Head(transcribed_text_queue))
    /\ transcribed_text_queue' = Tail(transcribed_text_queue)
    /\ m_pc' = "text_test"
    /\ UNCHANGED <<active_display_words, last_word_display_time, ticks, released>>
    /\ UNCHANGED <<transcriber_ready_event, llm_agent_output_queue, llm_response_display_queue>>
    /\ UNCHANGED fwdVars
    /\ UNCHANGED <<runVars, llmVars, normalized_data, shown, paused, warmup, devVars>>
    /\ UNCHANGED <<cfgVars, sideVars, audioVars, model_loaded_event, transVars, textVars, dedupVars>>

\* while self.llm_agent_output_queue and not self.llm_agent_output_queue.empty()
MainLlmTest ==
    /\ m_pc = "llm_test"
    /\ m_pc' = IF llm_agent_output_queue = <<>> THEN "release" ELSE "llm_get"
    /\ UNCHANGED <<runVars, llmVars, normalized_data, shown, paused, warmup, devVars>>
    /\ UNCHANGED <<cfgVars, sideVars, audioVars, model_loaded_event, transVars, textVars, dedupVars, dispVars>>

\* response_text = self.llm_agent_output_queue.get(); the words are appended
MainLlmGet ==
    /\ m_pc = "llm_get"
    /\ GetReturns(llm_agent_output_queue)
    /\ llm_response_display_queue' =
           llm_response_display_queue \o Split(Head(llm_agent_output_queue))
    /\ llm_agent_output_queue' = Tail(llm_agent_output_queue)
    /\ m_pc' = "llm_test"
    /\ UNCHANGED <<transcribed_text_queue, transcriber_ready_event>>
    /\ UNCHANGED <<uiVars, fwdVars>>
    /\ UNCHANGED <<runVars, llmVars, normalized_data, shown, paused, warmup, devVars>>
    /\ UNCHANGED <<cfgVars, sideVars, audioVars, model_loaded_event, transVars, textVars, dedupVars>>

\* the rest of update: the release, the scroll, the evictions
MainRelease(d) ==
    /\ m_pc = "release"
    /\ ticks + d <= MaxTicks
    /\ ticks' = ticks + d
    /\ ReleaseStep(pending_display_words, ticks')
    /\ active_display_words' = ActiveAfterUpdate(pending_display_words, ticks', d)
    /\ m_pc' = "draw"
    /\ UNCHANGED <<queuedVars, fwdVars>>
    /\ UNCHANGED <<runVars, llmVars, normalized_data, shown, paused, warmup, devVars>>
    /\ UNCHANGED <<cfgVars, sideVars, audioVars, model_loaded_event, transVars, textVars, dedupVars>>

\* word_display_manager.draw(screen, current_time), then the next iteration
MainDraw(llm_due) ==
    /\ m_pc = "draw"
    /\ shown' = DrawMessage(paused, transcriber_ready_event)
    /\ llm_response_display_queue' =
           IF shown' = "words" /\ llm_due /\ llm_response_display_queue # <<>>
           THEN Tail(llm_response_display_queue)
           ELSE llm_response_display_queue
    /\ m_pc' = "poll"
    /\ UNCHANGED <<transcribed_text_queue, transcriber_ready_event, llm_agent_output_queue>>
    /\ UNCHANGED <<uiVars, fwdVars>>
    /\ UNCHANGED <<runVars, llmVars, normalized_data, paused, warmup, devVars>>
    /\ UNCHANGED <<cfgVars, sideVars, audioVars, model_loaded_event, transVars, textVars, dedupVars>>

\* the agent has got a query and puts its answer on its output queue (explored
\* with the previous answer shown)
LlmAnswer(response) ==
    /\ l_pc = "get"
    /\ llm_agent_output_queue = <<>>
    /\ llm_response_display_queue = <<>>
    /\ llm_agent_output_queue' = Append(llm_agent_output_queue, response)
    /\ l_pc' = "loop"
    /\ UNCHANGED <<transcribed_text_queue, transcriber_ready_event, llm_response_display_queue>>
    /\ UNCHANGED <<uiVars, fwdVars>>
    /\ UNCHANGED <<runVars, mainVars, warmup, devVars>>
    /\ UNCHANGED <<cfgVars, sideVars, audioVars, model_loaded_event, transVars, textVars, dedupVars>>

(***************************************************************************)
(* The capture and transcription path.                                     *)
(***************************************************************************)
\* no configuration lookup is under way
NoConfigLookup ==
    /\ config = <<>>
    /\ key = <<>>
    /\ default = 0
    /\ get_result = 0
    /\ c_pc = "idle"

\* AbstractLLMAgent.__init__: no query was put on the agent's input queue
NoAgentQueries ==
    /\ llm_agent_input_queue = <<>>
    /\ llm_taken = <<>>

\* Eye.__init__
InitEye ==
    /\ blink_state = "IDLE"
    /\ blink_start_time = 0
    /\ last_blink_time = 0
    /\ blink_interval = DefaultBlinkInterval

InitSide ==
    /\ NoConfigLookup
    /\ NoAgentQueries
    /\ InitEye

\* the loops have not started, the main loop has drawn nothing
InitLife ==
    /\ a_running = FALSE
    /\ t_running = FALSE
    /\ l_pc = "start"
    /\ l_running = FALSE
    /\ stop_called = {}
    /\ warmup = "none"
    /\ normalized_data = [i \in 1..chunk_size |-> 0]
    /\ shown = "nothing"
    /\ paused = FALSE
    /\ m_pc = "poll"
    /\ stream = "none"
    /\ release_calls = <<>>

\* the threads as constructed, before start()
InitThreads ==
    /\ a_pc = "start"
    /\ animation_queue = <<>>
    /\ transcription_queue = <<>>
    /\ model_loaded_event = FALSE
    /\ t_pc = "load"
    /\ audio_buffer = <<>>
    /\ audio_np = <<>>
    /\ frames_read = 0
    /\ amplified = <<>>
    /\ windows = <<>>
    /\ burst = 0
    /\ text = <<>>
    /\ cleaned_text = <<>>
    /\ log_lines = <<>>
    /\ add_words = <<>>
    /\ forwarded = <<>>
    /\ InitLife

\* WordDisplayManager.__init__
InitDisplay ==
    /\ pending_display_words = <<>>
    /\ active_display_words = <<>>
    /\ ticks = 0
    /\ last_word_display_time = ticks
    /\ released = <<>>
    /\ transcribed_text_queue = <<>>
    /\ transcriber_ready_event = FALSE
    /\ llm_agent_output_queue = <<>>
    /\ llm_response_display_queue = <<>>

\* no caller of _apply_cleanup_strategy outside the transcriber loop
InitNoDedupCall ==
    /\ d_pc = "idle"
    /\ recleaned = <<>>

\* an engine that hears nothing: it raises, or returns the empty text
SilentOutcomes == {Outcome(TRUE, <<>>), Outcome(FALSE, <<>>)}

InitAudio ==
    /\ interval_seconds \in IntervalChoices
    /\ overlap_seconds \in OverlapChoices
    /\ overlap_buffer_size < interval_buffer_size
    /\ cleanup_strategy = "none"
    /\ wdm_version = "direct"
    /\ gain_factor = <<GainNum, GainDen>>
    /\ InitSide
    /\ transcription_history = <<>>
    /\ InitThreads
    /\ InitDisplay
    /\ InitNoDedupCall

NextAudio ==
    \/ AudioStart
    \/ \E frame \in Frames : AudioCapture(frame)
    \/ \E ok \in BOOLEAN : TranscriberLoad(ok)
    \/ TranscriberReady(FALSE)
    \/ TranscriberDrain
    \/ TranscriberDrained
    \/ TranscriberWait
    \/ TranscriberCut
    \/ \E outcome \in SilentOutcomes : TranscriberTranscribe(outcome)

SpecAudio == InitAudio /\ [][NextAudio]_vars

(***************************************************************************)
(* The capture thread with its two consumers: the main loop polls the      *)
(* animation queue (or never does), the transcriber loads, becomes ready   *)
(* and drains the transcription queue; reads fail, the thread is stopped.  *)
(***************************************************************************)
\* two frames that differ: every sample quiet, every sample loud
CaptureFrames == {[i \in 1..chunk_size |-> r] : r \in RawSamples}

InitCapture ==
    /\ interval_seconds = <<1, 2>>
    /\ overlap_seconds = <<0, 1>>
    /\ cleanup_strategy = "none"
    /\ wdm_version = "direct"
    /\ gain_factor = <<GainNum, GainDen>>
    /\ InitSide
    /\ transcription_history = <<>>
    /\ InitThreads
    /\ InitDisplay
    /\ InitNoDedupCall

NextCapture ==
    \/ AudioStart
    \/ AudioOpenFails
    \/ \E frame \in CaptureFrames : AudioCapture(frame)
    \/ AudioReadError
    \/ \E frame \in CaptureFrames, offered \in BOOLEAN : AudioUnexpected(frame, offered)
    \/ AudioExit
    \/ AudioStop
    \/ AnimationPoll
    \/ \E ok \in BOOLEAN : TranscriberLoad(ok)
    \/ \E raised \in BOOLEAN : TranscriberReady(raised)
    \/ TranscriberDrain

SpecCapture == InitCapture /\ [][NextCapture]_vars

(***************************************************************************)
(* The whole pipeline of src/: capture, transcriber, word display.  The    *)
(* microphone is silent (the engine is opaque: its text does not depend    *)
(* on the bytes here), the engine returns any of a few texts or raises,    *)
(* the log may fail to open, the UI runs one frame per release interval.   *)
(***************************************************************************)
SilentFrames == [1..chunk_size -> {0}]
EngineTexts == {<<>>, <<"a">>, <<"a", " ", "b">>, <<"b", " ", "a", " ", "b">>}
EngineOutcomes == {Outcome(TRUE, <<>>)} \cup {Outcome(FALSE, t) : t \in EngineTexts}

InitPipeline ==
    /\ interval_seconds = <<1, 2>>
    /\ overlap_seconds \in {<<0, 1>>, <<1, 4>>}
    /\ cleanup_strategy \in {"simple_deduplication", "none"}
    /\ wdm_version = "direct"
    /\ gain_factor = <<GainNum, GainDen>>
    /\ InitSide
    /\ transcription_history = <<>>
    /\ InitThreads
    /\ InitDisplay
    /\ InitNoDedupCall

NextPipeline ==
    \/ AudioStart
    \/ \E frame \in SilentFrames : AudioCapture(frame)
    \/ \E ok \in BOOLEAN : TranscriberLoad(ok)
    \/ TranscriberReady(FALSE)
    \/ TranscriberDrain
    \/ TranscriberDrained
    \/ TranscriberWait
    \/ TranscriberCut
    \/ \E outcome \in EngineOutcomes : TranscriberTranscribe(outcome)
    \/ AddTranscribedWord
    \/ \E log_ok \in BOOLEAN : TranscriberRecord(log_ok)
    \/ UiFrameDirect(word_display_interval_ms)

SpecPipeline == InitPipeline /\ [][NextPipeline]_vars

(***************************************************************************)
(* The life of the three threads: start, load, warm-up, the loops, the     *)
(* engine failing or answering, stop() called on any component at any      *)
(* time.  The microphone is silent.                                        *)
(***************************************************************************)
LifecycleOutcomes == {Outcome(TRUE, <<>>), Outcome(FALSE, <<>>), Outcome(FALSE, <<"a">>)}

InitLifecycle ==
    /\ interval_seconds = <<1, 2>>
    /\ overlap_seconds = <<1, 4>>
    /\ cleanup_strategy = "none"
    /\ wdm_version = "direct"
    /\ gain_factor = <<GainNum, GainDen>>
    /\ InitSide
    /\ transcription_history = <<>>
    /\ InitThreads
    /\ InitDisplay
    /\ InitNoDedupCall

AudioThread ==
    \/ AudioStart
    \/ \E frame \in SilentFrames : AudioCapture(frame)
    \/ AudioExit

TranscriberThread ==
    \/ \E ok \in BOOLEAN : TranscriberLoad(ok)
    \/ \E raised \in BOOLEAN : TranscriberReady(raised)
    \/ TranscriberDrain
    \/ TranscriberDrained
    \/ TranscriberWait
    \/ TranscriberCut
    \/ \E outcome \in LifecycleOutcomes : TranscriberTranscribe(outcome)
    \/ AddTranscribedWord
    \/ TranscriberRecord(TRUE)

LlmThread ==
    \/ LlmStart
    \/ LlmGet
    \/ LlmEmpty
    \/ LlmExit

NextLifecycle ==
    \/ AudioThread
    \/ TranscriberThread
    \/ LlmThread
    \/ AudioStop
    \/ TranscriberStop
    \/ LlmStop

SpecLifecycle == InitLifecycle /\ [][NextLifecycle]_vars

\* every started thread keeps being scheduled
SpecLifecycleFair ==
    /\ SpecLifecycle
    /\ WF_vars(AudioThread)
    /\ WF_vars(TranscriberThread)
    /\ WF_vars(LlmThread)

(***************************************************************************)
(* The word display alone, under any caller: fragments arrive (by          *)
(* add_transcribed_text, word by word, or through transcribed_text_queue)  *)
(* while the UI loop runs frames of differing lengths.                     *)
(***************************************************************************)
DisplayFragments == {<<"a", "b">>, <<"a", " ", "b">>, <<"b", "a", " ", " ", "a", "b">>}
Deltas == {100, 150}

\* the transcriber thread calls add_transcribed_text(fragment)
CallerAddsText(fragment) ==
    /\ wdm_version = "direct"
    /\ add_words = <<>>
    /\ Len(forwarded) < MaxFragments
    /\ add_words' = Split(fragment)
    /\ forwarded' = Append(forwarded, fragment)
    /\ UNCHANGED <<log_lines, uiVars, queuedVars>>
    /\ UNCHANGED <<lifeVars, cfgVars, sideVars, audioVars, model_loaded_event, transVars, textVars, dedupVars>>

\* transcriber_ready_event, shared with the transcriber thread, is set
TranscriberReadyEventSet ==
    /\ wdm_version = "queued"
    /\ ~transcriber_ready_event
    /\ transcriber_ready_event' = TRUE
    /\ UNCHANGED <<transcribed_text_queue, llm_agent_output_queue, llm_response_display_queue>>
    /\ UNCHANGED <<uiVars, fwdVars>>
    /\ UNCHANGED <<lifeVars, cfgVars, sideVars, audioVars, model_loaded_event, transVars, textVars, dedupVars>>

\* a fragment is put on transcribed_text_queue, shared with the transcriber
\* thread, at any time
TranscribedTextPut(fragment) ==
    /\ wdm_version = "queued"
    /\ Len(forwarded) < MaxFragments
    /\ transcribed_text_queue' = Append(transcribed_text_queue, fragment)
    /\ forwarded' = Append(forwarded, fragment)
    /\ UNCHANGED <<transcriber_ready_event, llm_agent_output_queue, llm_response_display_queue>>
    /\ UNCHANGED <<add_words, log_lines, uiVars>>
    /\ UNCHANGED <<lifeVars, cfgVars, sideVars, audioVars, model_loaded_event, transVars, textVars, dedupVars>>

InitDisplayOnly ==
    /\ interval_seconds = <<1, 2>>
    /\ overlap_seconds = <<0, 1>>
    /\ cleanup_strategy = "none"
    /\ wdm_version \in {"direct", "queued"}
    /\ gain_factor = <<GainNum, GainDen>>
    /\ InitSide
    /\ transcription_history = <<>>
    /\ InitThreads
    /\ InitDisplay
    /\ InitNoDedupCall

NextDisplay ==
    \/ \E fragment \in DisplayFragments : CallerAddsText(fragment)
    \/ AddTranscribedWord
    \/ \E d \in Deltas : UiFrameDirect(d)
    \/ TranscriberReadyEventSet
    \/ \E fragment \in DisplayFragments : TranscribedTextPut(fragment)
    \/ \E d \in Deltas : UiFrameQueued(d)

SpecDisplay == InitDisplayOnly /\ [][NextDisplay]_vars

\* the display with a frame time whose scroll amount is not a float of the
\* model beyond 512 pixels: 70 * 101 / 1000 = 7.07 pixels
LayoutDeltas == Deltas \cup {101}

NextLayout ==
    \/ \E fragment \in DisplayFragments : CallerAddsText(fragment)
    \/ AddTranscribedWord
    \/ \E d \in LayoutDeltas : UiFrameDirect(d)
    \/ TranscriberReadyEventSet
    \/ \E fragment \in DisplayFragments : TranscribedTextPut(fragment)
    \/ \E d \in LayoutDeltas : UiFrameQueued(d)

SpecLayout == InitDisplayOnly /\ [][NextLayout]_vars

(***************************************************************************)
(* _apply_cleanup_strategy as a function: every history, every fragment,   *)
(* every strategy; applied once, then once more to its own result.         *)
(***************************************************************************)
RECURSIVE SeqsUpTo(_, _)
SeqsUpTo(S, n) ==
    IF n = 0 THEN {<<>>}
    ELSE LET shorter == SeqsUpTo(S, n - 1)
         IN shorter \cup {Append(q, x) : q \in {r \in shorter : Len(r) = n - 1}, x \in S}

Texts == SeqsUpTo(Chars, MaxTextLen)
Histories == SeqsUpTo(HistoryWords, transcription_history_size)

InitDedup ==
    /\ interval_seconds = <<1, 2>>
    /\ overlap_seconds = <<0, 1>>
    /\ wdm_version = "direct"
    /\ gain_factor = <<GainNum, GainDen>>
    /\ InitSide
    /\ a_pc = "start"
    /\ animation_queue = <<>>
    /\ transcription_queue = <<>>
    /\ model_loaded_event = FALSE
    /\ t_pc = "load"
    /\ audio_buffer = <<>>
    /\ audio_np = <<>>
    /\ frames_read = 0
    /\ amplified = <<>>
    /\ windows = <<>>
    /\ burst = 0
    /\ log_lines = <<>>
    /\ add_words = <<>>
    /\ forwarded = <<>>
    /\ InitLife
    /\ InitDisplay
    /\ cleanup_strategy \in Strategies
    /\ transcription_history \in Histories
    /\ text \in Texts
    /\ cleaned_text = <<>>
    /\ d_pc = "call"
    /\ recleaned = <<>>

\* cleaned_text = self._apply_cleanup_strategy(text)
DedupApply ==
    /\ d_pc = "call"
    /\ cleaned_text' = ApplyCleanupStrategy(text, transcription_history, cleanup_strategy)
    /\ d_pc' = "once"
    /\ UNCHANGED <<transcription_history, text, recleaned>>
    /\ UNCHANGED <<lifeVars, cfgVars, sideVars, audioVars, model_loaded_event, transVars, dispVars>>

\* the filter applied to its own result, the history being the same
DedupReapply ==
    /\ d_pc = "once"
    /\ recleaned' = ApplyCleanupStrategy(cleaned_text, transcription_history, cleanup_strategy)
    /\ d_pc' = "twice"
    /\ UNCHANGED <<transcription_history, text, cleaned_text>>
    /\ UNCHANGED <<lifeVars, cfgVars, sideVars, audioVars, model_loaded_event, transVars, dispVars>>

NextDedup == DedupApply \/ DedupReapply

SpecDedup == InitDedup /\ [][NextDedup]_vars

\* the lengths k at which the last k words of h equal the first k words of w
MatchLengths(h, w) ==
    {k \in 0..Min(Len(w), Len(h)) :
        SubSeq(h, Len(h) - k + 1, Len(h)) = SubSeq(w, 1, k)}
LargestMatch(h, w) == CHOOSE k \in MatchLengths(h, w) : \A j \in MatchLengths(h, w) : j <= k
IsSuffixOf(s, w) == Len(s) <= Len(w) /\ s = SubSeq(w, Len(w) - Len(s) + 1, Len(w))

\* C4: with "simple_deduplication" the filter returns the words W[k:] of the
\* fragment joined by single spaces, k being the largest length at which the
\* last k words of the history equal the first k words of W (0 when none or
\* when the history is empty); the result is a suffix of W.
C4_DedupLargestMatch ==
    (d_pc # "call" /\ cleanup_strategy = "simple_deduplication") =>
        LET W == Split(text)
            k == LargestMatch(transcription_history, W)
        IN /\ cleaned_text = Join(SubSeq(W, k + 1, Len(W)))
           /\ IsSuffixOf(Split(cleaned_text), W)
           /\ (MatchLengths(transcription_history, W) = {0} => Split(cleaned_text) = W)

\* two positive lengths match and words are left after the longer one
C4_Witness ==
    /\ d_pc = "once"
    /\ cleanup_strategy = "simple_deduplication"
    /\ Cardinality(MatchLengths(transcription_history, Split(text))) >= 3
    /\ cleaned_text # <<>>

\* C6 as stated: filtering the filtered result again, against the same
\* history, returns it unchanged.
C6_DedupIdempotent ==
    d_pc = "twice" => recleaned = cleaned_text

\* C6 as amended: the second pass returns a suffix (in words) of the first
\* result, and returns it unchanged when the history is empty, when the
\* strategy is not "simple_deduplication", or when the first pass found no
\* overlap to remove.
C6_DedupSecondPass ==
    d_pc = "twice" =>
        /\ IsSuffixOf(Split(recleaned), Split(cleaned_text))
        /\ ( \/ transcription_history = <<>>
             \/ cleanup_strategy # "simple_deduplication"
             \/ MatchLengths(transcription_history, Split(text)) = {0} )
            => recleaned = cleaned_text

\* the first pass removed nothing from a fragment of several words, with a
\* non-empty history, and the second pass has run
C6_Witness ==
    /\ d_pc = "twice"
    /\ cleanup_strategy = "simple_deduplication"
    /\ transcription_history # <<>>
    /\ MatchLengths(transcription_history, Split(text)) = {0}
    /\ Len(Split(cleaned_text)) >= 2
    /\ recleaned = cleaned_text

(***************************************************************************)
(* Properties of the capture and transcription path.                       *)
(***************************************************************************)
\* the bytes of the chunks waiting in the transcription queue, in order
QueuedBytes == Flatten(transcription_queue)
\* the distance between the starts of two consecutive windows
WindowStep == interval_buffer_size - overlap_buffer_size

\* C1: no audio loss on the transcription path: before any window is cut,
\* the bytes of audio_buffer followed by the bytes still in the transcription
\* queue are exactly the amplified frames of all frames read with the
\* model-ready event set, in order (nothing dropped, truncated or duplicated);
\* in particular the byte counts agree.
C1_NoAudioLoss ==
    windows = <<>> =>
        /\ audio_buffer \o QueuedBytes = amplified
        /\ Len(audio_buffer) + Len(QueuedBytes) = Len(amplified)

\* frames were amplified, some already drained and some still queued, no cut yet
C1_Witness ==
    /\ windows = <<>>
    /\ Len(amplified) >= 3 * 2 * chunk_size
    /\ audio_buffer # <<>>
    /\ transcription_queue # <<>>

\* C2: window overlap: with 0 <= overlap_bytes < interval_bytes, the first
\* overlap_bytes bytes of each window equal the last overlap_bytes bytes of
\* the window cut before it.
C2_WindowOverlap ==
    \A i \in 1..(Len(windows) - 1) :
        SubSeq(windows[i + 1], 1, overlap_buffer_size)
            = SubSeq(windows[i], interval_buffer_size - overlap_buffer_size + 1,
                     interval_buffer_size)

\* two windows with a non-empty overlap and different contents were cut
C2_Witness ==
    /\ Len(windows) >= 2
    /\ overlap_buffer_size > 0
    /\ windows[1] # windows[2]
    /\ \E i \in 1..overlap_buffer_size : windows[2][i] # 0

\* C3: window contents: every window is interval_bytes long, and window k
\* (from 0, in cut order) is bytes [k*step, k*step + interval_bytes) of the
\* concatenation of all chunks put on the transcription queue, where
\* step = interval_bytes - overlap_bytes; what is left (the buffer, then the
\* queue) starts at byte (number of windows)*step of that concatenation.
C3_WindowContents ==
    /\ \A k \in 0..(Len(windows) - 1) :
        /\ Len(windows[k + 1]) = interval_buffer_size
        /\ windows[k + 1] = SubSeq(amplified, k * WindowStep + 1,
                                   k * WindowStep + interval_buffer_size)
    /\ audio_buffer \o QueuedBytes
        = SubSeq(amplified, Len(windows) * WindowStep + 1, Len(amplified))

\* a second window was cut whose bytes differ from those of the first, and
\* the buffer still holds the overlap
C3_Witness ==
    /\ Len(windows) >= 2
    /\ windows[1] # windows[2]
    /\ Len(audio_buffer) >= overlap_buffer_size
    /\ overlap_buffer_size > 0

(***************************************************************************)
(* Properties of the transcriber's text path and of the word display.      *)
(***************************************************************************)
\* the words of fragment txt are the last words of the history
ExactRepeat(txt) ==
    /\ Split(txt) # <<>>
    /\ IsSuffixOf(Split(txt), transcription_history)

\* C5: dedup on exact repeats: when the engine returns a fragment whose words
\* are identical to the last words of the history, the filter
\* ("simple_deduplication") yields the empty string and the transcriber goes
\* back to its loop: nothing is handed to the word display, nothing is
\* logged, the history is unchanged.
C5_ExactRepeatDropped ==
    [][\A outcome \in EngineOutcomes :
        ( /\ ~outcome.raised
          /\ cleanup_strategy = "simple_deduplication"
          /\ ExactRepeat(outcome.text)
          /\ TranscriberTranscribe(outcome) )
        => ( /\ cleaned_text' = <<>>
             /\ t_pc' = "drain"
             /\ add_words' = <<>>
             /\ pending_display_words' = pending_display_words
             /\ forwarded' = forwarded
             /\ log_lines' = log_lines
             /\ transcription_history' = transcription_history )]_vars

\* the engine has repeated the last two words of the history, and the
\* transcriber is back in its loop with nothing forwarded for them
C5_Witness ==
    /\ cleanup_strategy = "simple_deduplication"
    /\ t_pc = "drain"
    /\ Len(Split(text)) >= 2
    /\ ExactRepeat(text)
    /\ cleaned_text = <<>>
    /\ forwarded # <<>>

\* the last n elements of s (all of s when it is shorter)
LastN(s, n) == SubSeq(s, Max(Len(s) - n, 0) + 1, Len(s))

\* C7: history maintenance: the history holds at most
\* transcription_history_size words, and between two iterations of the
\* transcriber loop it equals the last transcription_history_size words of
\* the concatenation of all emitted fragments.
C7_HistoryMaintenance ==
    /\ Len(transcription_history) <= transcription_history_size
    /\ t_pc # "forward" =>
          transcription_history = LastN(QueuedWords(forwarded), transcription_history_size)

\* the words released so far, in order
ReleasedWords == [i \in 1..Len(released) |-> released[i][1]]

\* C9: FIFO release under interleaving: whatever the interleaving of the
\* appends of add_transcribed_text with the UI's update, the released words,
\* then the pending words, then the words the running call has still to
\* append, are exactly the words of the forwarded fragments in order; so the
\* released words are a prefix of them: none lost, duplicated or reordered.
C9_FifoRelease ==
    /\ ReleasedWords \o pending_display_words \o add_words = QueuedWords(forwarded)
    /\ ReleasedWords = SubSeq(QueuedWords(forwarded), 1, Len(released))

\* a word of the fragment that add_transcribed_text is still appending has
\* already been released, after words of an earlier fragment
C9_Witness ==
    /\ Len(forwarded) >= 2
    /\ add_words # <<>>
    /\ Len(released) > Len(QueuedWords(SubSeq(forwarded, 1, Len(forwarded) - 1)))
    /\ \E i, j \in 1..Len(released) : released[i][1] # released[j][1]

\* the pending words that update tests: for the queued version, with the
\* words it has just pulled from transcribed_text_queue
PendingAtCheck ==
    IF wdm_version = "queued" /\ transcriber_ready_event
    THEN pending_display_words \o QueuedWords(transcribed_text_queue)
    ELSE pending_display_words

\* C8: pacing cadence: a call of update (the only step that advances the
\* clock) releases at most one word; it releases one exactly when the pending
\* queue is non-empty and current_time - last_word_display_time >=
\* word_display_interval_ms; and two consecutive releases are never less than
\* word_display_interval_ms apart.
C8_PacingCadence ==
    [][ /\ Len(released') <= Len(released) + 1
        /\ ticks' # ticks =>
             ( (Len(released') = Len(released) + 1)
               <=> ( /\ PendingAtCheck # <<>>
                     /\ ticks' - last_word_display_time >= word_display_interval_ms ) )
        /\ released' # released =>
             /\ released' = Append(released, <<Head(PendingAtCheck), ticks'>>)
             /\ Len(PendingAtCheck) = Len(pending_display_words') + 1
        /\ \A i \in 1..(Len(released') - 1) :
             released'[i + 1][2] - released'[i][2] >= word_display_interval_ms ]_vars

\* two words were released exactly one interval apart while a backlog of at
\* least two words stayed pending
C8_Witness ==
    /\ Len(released) >= 2
    /\ released[2][2] - released[1][2] = word_display_interval_ms
    /\ Len(pending_display_words) >= 2

\* C10 (the part about the releasing call): a word released by update is in
\* the active list when that call of update returns.
C10_ReleasedWordIsActive ==
    [][released' # released =>
        /\ active_display_words' # <<>>
        /\ active_display_words'[Len(active_display_words')].n = Len(released')]_vars

(***************************************************************************)
(* Scroll eviction.                                                        *)
(***************************************************************************)
\* the release numbers of the words of an active list
ActiveNumbers(active) == {active[i].n : i \in 1..Len(active)}

\* the update that is being taken scrolls: the direct class always, the
\* queued class once transcriber_ready_event is set
UpdateScrolls == wdm_version = "direct" \/ transcriber_ready_event

\* every word active before an update is active after it exactly when its
\* right edge, after the scroll of this update, is not left of 0
ScrollEvictionOfActive ==
    \A i \in 1..Len(active_display_words) :
        LET w == active_display_words[i]
            x == w.x - scroll_speed * (ticks' - ticks)
        IN (w.n \in ActiveNumbers(active_display_words')) <=> ~(x + w.width < 0)

\* C11: scroll eviction: a word that became active is removed exactly at the
\* first update after which x + width < 0 (at x + width = 0 it stays), never
\* earlier and never later: an update keeps every active word whose right
\* edge is not left of 0, the word it has just released included, and
\* removes every other.
C11_ScrollEviction ==
    [][(ticks' # ticks /\ UpdateScrolls) =>
        /\ ScrollEvictionOfActive
        /\ released' # released => Len(released') \in ActiveNumbers(active_display_words')]_vars

(***************************************************************************)
(* Properties of the capture loop and of the animation queue.              *)
(***************************************************************************)
\* the capture loop is about to run an iteration and the source has a frame
CaptureCanRead == a_pc = "loop" /\ a_running /\ frames_read < MaxFrames

\* C12: animation drop-not-block: the animation queue never holds more than
\* its capacity; an iteration of the capture loop that finds it full leaves
\* it as it is (the newest frame is discarded), raises nothing (the loop is
\* still running) and does the transcription step of the same iteration (the
\* amplified bytes are put when the model-ready event is set); and with the
\* queue full the loop is never blocked: the next iteration can be taken.
C12_AnimationDropNotBlock ==
    [][ /\ Len(animation_queue) <= AnimationQueueMaxsize
        /\ Len(animation_queue') <= AnimationQueueMaxsize
        /\ (CaptureCanRead /\ Len(animation_queue) = AnimationQueueMaxsize)
              => ENABLED (\E frame \in Frames : AudioCapture(frame))
        /\ \A frame \in Frames :
             (AudioCapture(frame) /\ Len(animation_queue) = AnimationQueueMaxsize)
                => /\ animation_queue' = animation_queue
                   /\ a_running' /\ a_pc' = "loop"
                   /\ frames_read' = frames_read + 1
                   /\ model_loaded_event =>
                        Len(transcription_queue') = Len(transcription_queue) + 1 ]_vars

\* frames were read and put on the transcription queue while the animation
\* queue stayed full, nothing having polled it
C12_Witness ==
    /\ Len(animation_queue) = AnimationQueueMaxsize
    /\ frames_read = MaxFrames
    /\ transcription_queue # <<>>
    /\ normalized_data = [i \in 1..chunk_size |-> 0]
    /\ a_pc = "loop" /\ a_running

\* C13: animation recency: when the main loop polls the animation queue and
\* obtains a sample, no sample enqueued later is still in the queue.
C13_AnimationRecency ==
    [][Len(animation_queue') < Len(animation_queue) => animation_queue' = <<>>]_vars

\* C19: capture error handling: an IOError from the read leaves the loop
\* running with both queues as they were, and the next iteration can read;
\* any other exception stops the loop: from then on no frame is read and
\* nothing is put on the transcription queue, the only step left to the
\* thread is to close the stream, and once closed it does nothing more.
C19_CaptureErrors ==
    [][ /\ AudioReadError =>
            /\ a_running' /\ a_pc' = "loop"
            /\ animation_queue' = animation_queue
            /\ transcription_queue' = transcription_queue
            /\ frames_read' = frames_read + 1
        /\ \A frame \in Frames, offered \in BOOLEAN :
              AudioUnexpected(frame, offered) =>
                /\ ~a_running' /\ a_pc' = "loop"
                /\ transcription_queue' = transcription_queue
        /\ (a_pc = "loop" /\ ~a_running) =>
              /\ frames_read' = frames_read
              /\ Len(animation_queue') <= Len(animation_queue)
              /\ amplified' = amplified
              /\ a_pc' \in {"loop", "closed"}
        /\ a_pc = "closed" =>
              /\ a_pc' = "closed"
              /\ frames_read' = frames_read
              /\ Len(animation_queue') <= Len(animation_queue)
              /\ amplified' = amplified ]_vars

\* three reads, no stop() call and no poll: one frame went to both queues,
\* one read failed with IOError (nothing offered), one iteration raised
\* before its offer and ended the loop; the stream is closed
C19_Witness ==
    /\ a_pc = "closed"
    /\ stop_called = {}
    /\ frames_read = 3
    /\ Len(amplified) = 2 * chunk_size
    /\ Len(animation_queue) = 1
    /\ normalized_data = [i \in 1..chunk_size |-> 0]

\* C14: readiness gating: while the model-ready event is unset nothing has
\* been put on the transcription queue and the transcriber's buffer is
\* empty; an iteration of the capture loop that reads a frame with the event
\* unset leaves the queue empty (the frame is discarded, not kept for
\* later); and the first window is made of bytes amplified after the event
\* was set.
C14_ReadinessGating ==
    [][ /\ ~model_loaded_event =>
            /\ transcription_queue = <<>>
            /\ audio_buffer = <<>>
            /\ windows = <<>>
        /\ (~model_loaded_event /\ frames_read' = frames_read + 1) =>
            /\ transcription_queue' = <<>>
            /\ audio_buffer' = <<>>
            /\ amplified' = <<>>
        /\ windows' # <<>> =>
            /\ model_loaded_event'
            /\ windows'[1] = SubSeq(amplified', 1, interval_buffer_size) ]_vars

\* a frame was read and discarded before the event was set, and a window
\* has been cut from the frames read after it
C14_Witness ==
    /\ model_loaded_event
    /\ windows # <<>>
    /\ Len(amplified) < 2 * chunk_size * frames_read

(***************************************************************************)
(* Properties of the life of the threads.                                  *)
(***************************************************************************)
\* C15: the model-ready flag is monotonic: it starts unset, only the
\* transcriber thread, at the end of its warm-up, sets it, and once set it
\* stays set whatever is stopped afterwards.
C15_ReadyFlagMonotonic ==
    [][ /\ model_loaded_event => model_loaded_event'
        /\ (~model_loaded_event /\ model_loaded_event') => (t_pc = "warmup" /\ t_pc' # "warmup")
        /\ (t_pc = "load" /\ stop_called = {}) => ~model_loaded_event ]_vars

\* everything was stopped after the flag was set, and the flag is still set
C15_Witness ==
    /\ model_loaded_event
    /\ stop_called = {"audio", "transcriber", "llm"}
    /\ t_pc = "exited"
    /\ a_pc = "closed"

\* C16: lifecycle ordering: the transcriber goes from loading to the warm-up
\* to its loop, never back; the ready flag is set exactly when the warm-up
\* has been attempted, whether it returned or raised; and while the flag is
\* unset no window has been cut and no text has been forwarded.
C16_LifecycleOrdering ==
    [][ /\ t_pc = "load" => (t_pc' \in {"load", "warmup", "failed"} /\ warmup = "none")
        /\ t_pc = "warmup" => (t_pc' \in {"warmup", "drain"} /\ warmup = "none")
        /\ t_pc \notin {"load", "warmup"} => t_pc' \notin {"load", "warmup"}
        /\ (t_pc = "warmup" /\ t_pc' # "warmup") =>
              (model_loaded_event' /\ warmup' \in {"ok", "raised"})
        /\ model_loaded_event <=> warmup \in {"ok", "raised"}
        /\ ~model_loaded_event =>
              /\ t_pc \in {"load", "warmup", "failed"}
              /\ windows = <<>>
              /\ forwarded = <<>>
              /\ pending_display_words = <<>> ]_vars

\* the warm-up raised, the flag was set all the same, and text was forwarded
C16_Witness ==
    /\ warmup = "raised"
    /\ model_loaded_event
    /\ windows # <<>>
    /\ forwarded # <<>>

\* the engine call raises or returns the empty text
EngineFails(outcome) == outcome.raised \/ outcome.text = <<>>

\* C18: recoverable engine error: when one engine call raises or returns the
\* empty text, nothing is forwarded to the word display or logged, the
\* history and the audio buffer are as they were, and the loop goes to its
\* next iteration (unless stop() was called), so the next window is cut and
\* transcribed as if the call had not been made.
C18_RecoverableEngineError ==
    [][\A outcome \in LifecycleOutcomes :
         (EngineFails(outcome) /\ TranscriberTranscribe(outcome)) =>
            /\ forwarded' = forwarded
            /\ add_words' = add_words
            /\ pending_display_words' = pending_display_words
            /\ log_lines' = log_lines
            /\ transcription_history' = transcription_history
            /\ audio_buffer' = audio_buffer
            /\ t_running' = t_running
            /\ t_running => t_pc' = "drain"
            /\ model_loaded_event' ]_vars

\* after an engine call that produced nothing for the first window (nothing
\* forwarded, nothing logged), the loop is running and a window was cut again
C18_Witness ==
    /\ Len(windows) = 2
    /\ t_pc = "transcribe"
    /\ t_running
    /\ forwarded = <<>>
    /\ log_lines = <<>>
    /\ Len(audio_buffer) < interval_buffer_size

\* every loop has ended: the capture thread has closed its stream, the
\* transcriber's run() has returned (or died loading), the agent's run() has
\* returned
AllLoopsExited ==
    /\ a_pc = "closed"
    /\ t_pc \in {"exited", "failed"}
    /\ l_pc = "exited"

\* AudioHandler.stop(), and no other stop(), has been called while the
\* three loops were running, and the capture thread has observed it
OnlyAudioStopped ==
    /\ stop_called = {"audio"}
    /\ a_pc = "closed"
    /\ t_running /\ t_pc \notin {"load", "warmup", "failed", "exited"}
    /\ l_running /\ l_pc \in {"loop", "get"}

\* C20: shared stop: once stop() has been called on one component (here
\* the AudioHandler) with all the loops running, all the loops exit.
C20_SharedStop == OnlyAudioStopped ~> AllLoopsExited

\* when stop() has been called on each of the three components while its
\* loop was running, all the loops exit
EveryStopObserved ==
    (/\ stop_called = {"audio", "transcriber", "llm"}
     /\ ~a_running /\ a_pc \in {"loop", "closed"}
     /\ ~t_running /\ t_pc \notin {"load", "warmup"}
     /\ ~l_running /\ l_pc \in {"loop", "get", "exited"}) ~> AllLoopsExited

(***************************************************************************)
(* The model fails to load, or loads: the transcriber up to Ready, the     *)
(* main loop of src/src/main.py updating and drawing the word display, the *)
(* operator pausing and resuming.                                          *)
(***************************************************************************)
\* the transcriber of src.transcription sets transcriber_ready_event when it
\* has become Ready: the model is loaded and the warm-up was attempted
QueuedTranscriberSetsReady ==
    /\ model_loaded_event
    /\ TranscriberReadyEventSet

\* Ready is the only state in which the transcriber forwards text, and a
\* paused transcriber forwards none
QueuedTranscriberForward(fragment) ==
    /\ transcriber_ready_event
    /\ ~paused
    /\ t_pc \notin {"failed", "exited"}
    /\ TranscribedTextPut(fragment)

InitStartup ==
    /\ interval_seconds = <<1, 2>>
    /\ overlap_seconds = <<0, 1>>
    /\ cleanup_strategy = "none"
    /\ wdm_version = "queued"
    /\ gain_factor = <<GainNum, GainDen>>
    /\ InitSide
    /\ transcription_history = <<>>
    /\ InitThreads
    /\ InitDisplay
    /\ InitNoDedupCall

NextStartup ==
    \/ \E ok \in BOOLEAN : TranscriberLoad(ok)
    \/ \E raised \in BOOLEAN : TranscriberReady(raised)
    \/ QueuedTranscriberSetsReady
    \/ \E fragment \in DisplayFragments : QueuedTranscriberForward(fragment)
    \/ TogglePause
    \/ \E d \in Deltas : UiFrameQueued(d)
    \/ \E llm_due \in BOOLEAN : UiDraw(llm_due)

SpecStartup == InitStartup /\ [][NextStartup]_vars

\* update(delta_time) has returned at its readiness test: no word was
\* pulled, released, scrolled or evicted
UpdateReturnsAtOnce ==
    /\ pending_display_words' = pending_display_words
    /\ active_display_words' = active_display_words
    /\ released' = released
    /\ last_word_display_time' = last_word_display_time
    /\ transcribed_text_queue' = transcribed_text_queue

\* the load has failed: the flags stay unset, nothing is forwarded, update
\* returns at once, and the main loop can go on drawing
LoadFailedStep(message) ==
    t_pc = "failed" =>
        /\ ~model_loaded_event'
        /\ ~transcriber_ready_event'
        /\ forwarded' = <<>>
        /\ t_pc' = "failed"
        /\ (\E d \in Deltas : UiFrameQueued(d)) => UpdateReturnsAtOnce
        /\ (\E llm_due \in BOOLEAN : UiDraw(llm_due)) => shown' = message
        /\ ENABLED UiDraw(FALSE)

TranscriberReturned == t_pc \in {"exited", "failed"}

\* C21: a stop is never lost: once stop() has been called on the
\* transcriber, at any moment after start() and also while the model is
\* still loading or warming up, its run() eventually returns.
C21_StopNeverLost == ("transcriber" \in stop_called) ~> TranscriberReturned

\* C22: in-flight result discarded on stop: when stop() has been called on
\* the transcriber while an engine call is in flight, the text the call
\* returns is not forwarded to the word display, not logged and not added
\* to the history.
C22_InFlightDiscarded ==
    [][(/\ "transcriber" \in stop_called
        /\ ~t_running
        /\ t_pc = "transcribe")
       => (/\ forwarded' = forwarded
           /\ add_words' = add_words
           /\ t_pc' # "forward"
           /\ log_lines' = log_lines
           /\ transcription_history' = transcription_history)]_vars

(***************************************************************************)
(* The choice of the cleanup strategy.                                     *)
(***************************************************************************)
\* C29: cleanup strategy selection: with "none", and with any strategy name
\* other than "simple_deduplication", _apply_cleanup_strategy returns the
\* fragment unchanged, whatever the history; with every strategy the call
\* leaves the transcription history as it was.
C29_StrategySelection ==
    [][DedupApply =>
         /\ (cleanup_strategy # "simple_deduplication" => cleaned_text' = text)
         /\ transcription_history' = transcription_history]_vars

\* an unknown strategy has returned, unchanged, a fragment whose first word
\* ends the history and that has spaces around it
C29_Witness ==
    /\ d_pc = "once"
    /\ cleanup_strategy = "aggressive"
    /\ transcription_history = <<<<"a">>>>
    /\ text = <<" ", "a", " ", "b", " ">>
    /\ cleaned_text = text

(***************************************************************************)
(* Where a released word is placed.                                        *)
(***************************************************************************)
\* this step of update has released a word
WordReleased == Len(released') = Len(released) + 1

\* the released word is in the active list after the update at `x` less the
\* scroll of this frame, as the last word; or it is not in the list, and
\* then it was beyond the right edge
ReleasedAt(x) ==
    LET n == Len(released')
        scrolled == x - scroll_speed * (ticks' - ticks)
        at == {i \in 1..Len(active_display_words') : active_display_words'[i].n = n}
    IN /\ last_word_display_time' = ticks'
       /\ released'[n] = <<Head(pending_display_words \o QueuedWords(transcribed_text_queue)), ticks'>>
       /\ IF at = {}
          THEN scrolled > 1000 * screen_width
          ELSE /\ at = {Len(active_display_words')}
               /\ active_display_words'[Len(active_display_words')].x = scrolled

\* screen_width / 2 + text_start_offset
FixedAnchor == 500 * screen_width + 1000 * text_start_offset

\* right of the last active word, or the anchor of the class when no word
\* is active
AfterLastWord ==
    IF active_display_words = <<>> THEN Anchor
    ELSE LET last_word == active_display_words[Len(active_display_words)]
         IN last_word.x + last_word.width + 1000 * word_spacing

\* C30 as stated: every released word becomes active at
\* screen_width/2 + text_start_offset, whatever the words already active,
\* and last_word_display_time is set to the release time.
C30_ReleaseAtFixedAnchor == [][WordReleased => ReleasedAt(FixedAnchor)]_vars

\* C30 amended: a released word is appended at the anchor of its class
\* (screen_width/2 + text_start_offset, or screen_width/2 + word_spacing/2
\* in src/word_display_manager.py) when no word is active, and otherwise
\* word_spacing to the right of the last active word; last_word_display_time
\* is set to the release time.
C30_ReleasePosition == [][WordReleased => ReleasedAt(AfterLastWord)]_vars

\* a second word has been released while the first was active: it stands
\* right of the first, not at the anchor
C30_Witness ==
    /\ Len(active_display_words) = 2
    /\ active_display_words[2].n = Len(released)
    /\ last_word_display_time = ticks
    /\ active_display_words[2].x =
           active_display_words[1].x + active_display_words[1].width + 1000 * word_spacing
    /\ active_display_words[2].x + scroll_speed * 150 # Anchor

(***************************************************************************)
(* The pause.                                                              *)
(***************************************************************************)
\* the sequence s begins the sequence t
IsPrefixOf(s, t) == Len(s) <= Len(t) /\ s = SubSeq(t, 1, Len(s))

\* the active words by the number of their release, in the order of the list
ReleaseNumbers(active) == [i \in 1..Len(active) |-> active[i].n]

\* C24: pause suppresses releases: while the transcriber is paused, update
\* moves no word from the pending queue to the active list, and draw shows
\* the "Transcription Paused" indicator.
C24_PauseSuppressesReleases ==
    [][paused =>
         /\ (\E d \in Deltas : UiFrameQueued(d)) => released' = released
         /\ (\E llm_due \in BOOLEAN : UiDraw(llm_due)) => shown' = "paused"]_vars

\* C25: pause preserves words: from one step of a pause to the next, the
\* words that were pending are still the first of the pending queue and the
\* words that were active are still the first of the active list, in the
\* same order; so at the end of the pause every word of its beginning is
\* where it was.
C25_PausePreservesWords ==
    [][(paused /\ paused') =>
         /\ IsPrefixOf(pending_display_words, pending_display_words')
         /\ IsPrefixOf(ReleaseNumbers(active_display_words),
                       ReleaseNumbers(active_display_words'))]_vars

(***************************************************************************)
(* The release of the capture device.                                      *)
(***************************************************************************)
\* the number of times handle h was released
ReleaseCount(h) == Cardinality({i \in 1..Len(release_calls) : release_calls[i] = h})

\* run() of the capture thread has ended, by its last line or by an exception
AudioRunEnded == a_pc \in {"closed", "open_failed"}

\* C23: device release: on every path by which AudioHandler.run ends the
\* stream, if one was opened, and the PyAudio handle acquired in __init__
\* have each been released exactly once, and nothing is released while the
\* loop can still read.
C23_DeviceRelease ==
    /\ AudioRunEnded =>
          /\ ReleaseCount("backend") = 1
          /\ stream # "open"
          /\ ReleaseCount("stream") = (IF stream = "closed" THEN 1 ELSE 0)
    /\ ~AudioRunEnded => release_calls = <<>>

\* when the stream was opened, run() ends with the stream and the backend
\* each released once, after the loop
ReleasedOnceAfterLoop ==
    /\ a_pc = "closed" => (release_calls = <<"stream", "backend">> /\ stream = "closed")
    /\ a_pc \in {"start", "loop"} => release_calls = <<>>

(***************************************************************************)
(* The catch-up burst: the capture thread gets ahead of the transcriber,   *)
(* which then cuts several windows in one iteration of its loop.  The      *)
(* frames differ, the engine raises or answers.                            *)
(***************************************************************************)
InitBurst ==
    /\ interval_seconds = <<1, 2>>
    /\ overlap_seconds \in {<<0, 1>>, <<1, 4>>}
    /\ cleanup_strategy = "none"
    /\ wdm_version = "direct"
    /\ gain_factor = <<GainNum, GainDen>>
    /\ InitSide
    /\ transcription_history = <<>>
    /\ InitThreads
    /\ InitDisplay
    /\ InitNoDedupCall

NextBurst ==
    \/ AudioStart
    \/ \E frame \in CaptureFrames : AudioCapture(frame)
    \/ \E ok \in BOOLEAN : TranscriberLoad(ok)
    \/ TranscriberReady(FALSE)
    \/ TranscriberDrain
    \/ TranscriberDrained
    \/ TranscriberWait
    \/ TranscriberCut
    \/ \E outcome \in LifecycleOutcomes : TranscriberTranscribe(outcome)
    \/ AddTranscribedWord
    \/ TranscriberRecord(TRUE)

SpecBurst == InitBurst /\ [][NextBurst]_vars

\* C27: catch-up drain: when the transcriber finds audio_buffer holding at
\* least interval_bytes it cuts, and goes on cutting without touching the
\* transcription queue, until the buffer is shorter than interval_bytes; the
\* buffer is then left alone up to the next poll of the queue, so that at
\* every poll that follows a cut the buffer is shorter than interval_bytes.
C27_CatchUpDrain ==
    [][ /\ (TranscriberDrained /\ Len(audio_buffer) >= interval_buffer_size) => t_pc' = "cut"
        /\ t_pc = "cut" =>
              /\ Len(audio_buffer) >= interval_buffer_size
              /\ t_pc' \in {"cut", "transcribe"}
              /\ t_pc' = "transcribe" => Len(audio_buffer') < interval_buffer_size
              /\ TranscriberCut => transcription_queue' = transcription_queue
        /\ t_pc \in {"transcribe", "forward"} =>
              /\ Len(audio_buffer) < interval_buffer_size
              /\ audio_buffer' = audio_buffer
        /\ (t_pc' = "drain" /\ burst' > 0) => Len(audio_buffer') < interval_buffer_size ]_vars

\* the transcriber is back at the poll of the queue after a burst of two
\* windows, with less than a window in its buffer
C27_Witness ==
    /\ t_pc = "drain"
    /\ burst = 2
    /\ Len(audio_buffer) < interval_buffer_size
    /\ audio_buffer # <<>>

\* C28: catch-up forwarding: in a burst that cuts m >= 1 windows the engine
\* is called once, after the last cut and with the window cut last; a
\* fragment is forwarded only by that call, and only that fragment goes to
\* the log and the history: the first m - 1 windows contribute nothing.
C28_CatchUpForwarding ==
    [][ /\ (t_pc' = "transcribe" /\ t_pc # "transcribe") => t_pc = "cut"
        /\ t_pc = "transcribe" =>
              /\ burst >= 1
              /\ audio_np = FromBuffer(windows[Len(windows)])
              /\ t_pc' \notin {"cut"}
        /\ forwarded' # forwarded =>
              /\ \E outcome \in LifecycleOutcomes : TranscriberTranscribe(outcome)
              /\ Len(forwarded') = Len(forwarded) + 1
              /\ SubSeq(forwarded', 1, Len(forwarded)) = forwarded
              /\ t_pc' = "forward"
        /\ t_pc = "forward" => (t_pc' \in {"forward", "drain", "exited"} /\ forwarded' = forwarded)
        /\ (log_lines' # log_lines \/ transcription_history' # transcription_history) =>
              /\ t_pc = "forward"
              /\ log_lines' = Append(log_lines, forwarded[Len(forwarded)] \o <<"\n">>)
        /\ burst' < burst => (burst' = 0 /\ t_pc = "drain") ]_vars

\* two windows that differ were cut in one burst, and one fragment was
\* forwarded
C28_Witness ==
    /\ burst = 2
    /\ windows[1] # windows[2]
    /\ t_pc = "forward"
    /\ Len(forwarded) = 1
    /\ log_lines = <<>>

(***************************************************************************)
(* The main loop among the threads: the capture thread fills the animation *)
(* queue, stops or never opens its device; the model loads or fails; the   *)
(* transcriber forwards text late or never; the agent answers.             *)
(***************************************************************************)
MainFragments == {<<"a", "b">>}
MainFrames == {[i \in 1..chunk_size |-> -3]}
LlmResponses == {<<"o", "k">>}
MainDeltas == {300}

MainLoop ==
    \/ MainPoll
    \/ \E d \in MainDeltas : MainUpdate(d)
    \/ MainTextTest
    \/ MainTextGet
    \/ MainLlmTest
    \/ MainLlmGet
    \/ \E d \in MainDeltas : MainRelease(d)
    \/ \E llm_due \in BOOLEAN : MainDraw(llm_due)

InitMain ==
    /\ interval_seconds = <<1, 2>>
    /\ overlap_seconds = <<0, 1>>
    /\ cleanup_strategy = "none"
    /\ wdm_version = "queued"
    /\ gain_factor = <<GainNum, GainDen>>
    /\ InitSide
    /\ transcription_history = <<>>
    /\ InitThreads
    /\ InitDisplay
    /\ InitNoDedupCall

NextMain ==
    \/ MainLoop
    \/ AudioStart
    \/ \E frame \in MainFrames : AudioCapture(frame)
    \/ AudioStop
    \/ AudioExit
    \/ \E ok \in BOOLEAN : TranscriberLoad(ok)
    \/ TranscriberReady(FALSE)
    \/ QueuedTranscriberSetsReady
    \/ \E fragment \in MainFragments : QueuedTranscriberForward(fragment)
    \/ LlmStart
    \/ LlmGet
    \/ LlmEmpty
    \/ \E response \in LlmResponses : LlmAnswer(response)

SpecMain == InitMain /\ [][NextMain]_vars

\* the main loop has frames left to play in the window of time explored
FramesLeft == \E d \in MainDeltas : ticks + d <= MaxTicks

\* the main loop can take its next step
MainLoopNotWaiting == FramesLeft => ENABLED MainLoop

\* C26: the UI thread never blocks: whatever the capture and transcriber
\* threads are doing (loading, failed, slow, stopped), the main loop can
\* always take the next step of its iteration; a poll of the empty animation
\* queue keeps the last sample and goes on; and update takes from the
\* transcribed-text and LLM-output queues only what is there, so neither
\* get() waits.
C26_UiNeverBlocks ==
    /\ [](MainLoopNotWaiting)
    /\ [][/\ (MainPoll /\ animation_queue = <<>>)
              => (normalized_data' = normalized_data /\ m_pc' = "update")
          /\ MainTextGet => transcribed_text_queue # <<>>
          /\ MainLlmGet => llm_agent_output_queue # <<>>]_vars

\* the main loop polls the empty animation queue after a sample was shown,
\* with the model failed to load and the capture thread stopped
C26_Witness ==
    /\ m_pc = "update"
    /\ animation_queue = <<>>
    /\ normalized_data # <<>>
    /\ t_pc = "failed"
    /\ a_pc = "closed"
    /\ frames_read > 0

(***************************************************************************)
(* The transcription path under a fair scheduler: the capture thread puts  *)
(* amplified frames, the transcriber loop drains, cuts and calls the       *)
(* engine, which returns or raises; the log write succeeds or fails.       *)
(***************************************************************************)
InitDelivery ==
    /\ interval_seconds = <<1, 2>>
    /\ overlap_seconds = <<1, 4>>
    /\ cleanup_strategy = "none"
    /\ wdm_version = "direct"
    /\ gain_factor = <<GainNum, GainDen>>
    /\ InitSide
    /\ transcription_history = <<>>
    /\ InitThreads
    /\ InitDisplay
    /\ InitNoDedupCall

\* a silent frame and a quiet one: the amplified samples stay in range
DeliveryFrames == {[i \in 1..chunk_size |-> r] : r \in {0, -3}}

DeliveryCapture ==
    \/ AudioStart
    \/ \E frame \in DeliveryFrames : AudioCapture(frame)

DeliveryTranscriber ==
    \/ TranscriberThread
    \/ TranscriberRecord(FALSE)

NextDelivery ==
    \/ DeliveryCapture
    \/ DeliveryTranscriber
    \/ TranscriberStop

SpecDelivery == InitDelivery /\ [][NextDelivery]_vars

\* the transcriber thread keeps being scheduled
SpecDeliveryFair == SpecDelivery /\ WF_vars(DeliveryTranscriber)

\* the bytes of one amplified frame
FrameBytes == 2 * chunk_size
\* the bytes the transcriber has taken from the transcription queue so far
DeliveredBytes == Len(amplified) - Len(QueuedBytes)
\* the k-th amplified frame, as emitted
EmittedFrame(k) == SubSeq(amplified, (k - 1) * FrameBytes + 1, k * FrameBytes)

\* C31: eventual delivery on the transcription path: the put of an amplified
\* frame appends it to the transcription queue at once (it never blocks,
\* never drops); every chunk the transcriber takes is the oldest frame not
\* yet taken and is appended to the end of audio_buffer; and every frame
\* emitted is eventually taken, unless stop() is called on the transcriber.
C31_EventualDelivery ==
    /\ [][(frames_read' # frames_read /\ model_loaded_event) =>
              /\ Len(amplified') = Len(amplified) + FrameBytes
              /\ transcription_queue' =
                     Append(transcription_queue,
                            SubSeq(amplified', Len(amplified) + 1, Len(amplified')))]_vars
    /\ [][Len(transcription_queue') < Len(transcription_queue) =>
              /\ Len(transcription_queue') = Len(transcription_queue) - 1
              /\ audio_buffer' =
                     audio_buffer \o EmittedFrame((DeliveredBytes \div FrameBytes) + 1)]_vars
    /\ \A k \in 1..MaxFrames :
           (Len(amplified) >= k * FrameBytes)
               ~> (DeliveredBytes >= k * FrameBytes \/ "transcriber" \in stop_called)

\* two different frames were emitted and both have reached audio_buffer in
\* emission order, after a window was cut and with the loop still running
C31_Witness ==
    /\ Len(amplified) = 2 * FrameBytes
    /\ EmittedFrame(1) # EmittedFrame(2)
    /\ transcription_queue = <<>>
    /\ windows # <<>>
    /\ PySliceFrom(audio_buffer, -FrameBytes) = EmittedFrame(2)
    /\ "transcriber" \notin stop_called

(***************************************************************************)
(* Display, log and history.                                               *)
(***************************************************************************)
\* the log as it would be with one line per forwarded fragment
LinesOf(fragments) == [i \in 1..Len(fragments) |-> fragments[i] \o <<"\n">>]

\* the transcriber is between two iterations of its loop, or has returned
BetweenIterations == t_pc \in {"drain", "wait", "exited"}

\* C32: display, log and history stay consistent: between two iterations of
\* the transcriber loop the lines of the log are the fragments forwarded to
\* the word display, one line each and in order, and the history is the last
\* transcription_history_size words of their concatenation - also when the
\* log write fails.
C32_DisplayLogHistory ==
    BetweenIterations =>
        /\ log_lines = LinesOf(forwarded)
        /\ transcription_history =
               LastN(QueuedWords(forwarded), transcription_history_size)

(***************************************************************************)
(* The catch-up burst by itself: the loop finds the queue empty with any   *)
(* number of bytes buffered, for every pair of interval and overlap, the   *)
(* overlaps not shorter than the interval included.                        *)
(***************************************************************************)
CatchUpOverlaps == OverlapChoices \cup {<<3, 4>>, <<1, 1>>}
\* buffers of whole samples, every byte different from its neighbours
CatchUpBuffers ==
    {[i \in 1..n |-> i % 256] : n \in {m \in 0..MaxBufferBytes : m % 2 = 0}}

InitCatchUp ==
    /\ interval_seconds \in IntervalChoices
    /\ overlap_seconds \in CatchUpOverlaps
    /\ cleanup_strategy = "none"
    /\ wdm_version = "direct"
    /\ gain_factor = <<GainNum, GainDen>>
    /\ InitSide
    /\ transcription_history = <<>>
    /\ a_pc = "loop"
    /\ animation_queue = <<>>
    /\ transcription_queue = <<>>
    /\ model_loaded_event = TRUE
    /\ t_pc = "drain"
    /\ audio_buffer \in CatchUpBuffers
    /\ audio_np = <<>>
    /\ frames_read = Len(audio_buffer) \div (2 * chunk_size)
    /\ amplified = audio_buffer
    /\ windows = <<>>
    /\ burst = 0
    /\ text = <<>>
    /\ cleaned_text = <<>>
    /\ log_lines = <<>>
    /\ add_words = <<>>
    /\ forwarded = <<>>
    /\ a_running = TRUE
    /\ t_running = TRUE
    /\ l_pc = "start"
    /\ l_running = FALSE
    /\ stop_called = {}
    /\ warmup = "ok"
    /\ normalized_data = [i \in 1..chunk_size |-> 0]
    /\ shown = "nothing"
    /\ paused = FALSE
    /\ m_pc = "poll"
    /\ stream = "open"
    /\ release_calls = <<>>
    /\ InitDisplay
    /\ InitNoDedupCall

\* the inner loop, followed for as many cuts as the buffer has bytes
CatchUpCut ==
    /\ burst < MaxBufferBytes
    /\ TranscriberCut

NextCatchUp ==
    \/ TranscriberDrained
    \/ TranscriberWait
    \/ CatchUpCut
    \/ \E outcome \in SilentOutcomes : TranscriberTranscribe(outcome)

SpecCatchUp == InitCatchUp /\ [][NextCatchUp]_vars

\* a window is cut
CutStep == Len(windows') = Len(windows) + 1
\* the cuts of a burst that starts with n bytes buffered (WindowStep > 0)
CutsOfBurst(n) ==
    IF n < interval_buffer_size THEN 0
    ELSE ((n - interval_buffer_size) \div WindowStep) + 1

\* C33 as stated: a cut shortens audio_buffer by interval_bytes -
\* overlap_bytes when overlap_bytes < interval_bytes, and does not shrink it
\* when overlap_bytes >= interval_bytes.
C33_CatchUpTermination ==
    [][CutStep =>
          IF overlap_buffer_size < interval_buffer_size
          THEN Len(audio_buffer') = Len(audio_buffer) - WindowStep
          ELSE Len(audio_buffer') >= Len(audio_buffer)]_vars

\* C33, amended: with 0 <= overlap_bytes < interval_bytes a cut shortens
\* audio_buffer by exactly interval_bytes - overlap_bytes and the burst ends
\* after ((n - interval_bytes) div (interval_bytes - overlap_bytes)) + 1 cuts
\* of a buffer of n >= interval_bytes bytes; with overlap_bytes =
\* interval_bytes a cut leaves the buffer as it is; with overlap_bytes >
\* interval_bytes a cut keeps only the last overlap_bytes - interval_bytes
\* bytes of the buffer (all of it when it is not longer than that).
C33_CatchUpCuts ==
    [][CutStep =>
          /\ overlap_buffer_size < interval_buffer_size =>
                 /\ Len(audio_buffer') = Len(audio_buffer) - WindowStep
                 /\ burst' <= CutsOfBurst(Len(amplified))
                 /\ (t_pc' = "transcribe") = (burst' = CutsOfBurst(Len(amplified)))
          /\ overlap_buffer_size = interval_buffer_size =>
                 /\ audio_buffer' = audio_buffer
                 /\ t_pc' = "cut"
          /\ overlap_buffer_size > interval_buffer_size =>
                 audio_buffer' =
                     LastN(audio_buffer, overlap_buffer_size - interval_buffer_size)]_vars

\* the overlap is longer than the interval and the one cut of the burst has
\* shortened the buffer
C33_Witness ==
    /\ overlap_buffer_size > interval_buffer_size
    /\ burst = 1
    /\ t_pc = "transcribe"
    /\ Len(audio_buffer) < Len(amplified)

\* the overlap equals the interval and the inner loop is still cutting after
\* as many cuts as the buffer had bytes
EndlessCatchUp ==
    /\ overlap_buffer_size = interval_buffer_size
    /\ t_pc = "cut"
    /\ burst = MaxBufferBytes

(***************************************************************************)
(* Who writes the pending-word FIFO.                                       *)
(***************************************************************************)
\* a step of the transcriber thread: its position moves, or it is inside
\* add_transcribed_text, or it hands a fragment over
TranscriberThreadStep ==
    \/ t_pc' # t_pc
    \/ add_words' # add_words
    \/ forwarded' # forwarded

\* C34: single-owner rule for the pending queue: no step of the transcriber
\* thread modifies pending_display_words; only the thread that runs update
\* does.
C34_PendingSingleOwner ==
    [][TranscriberThreadStep => pending_display_words' = pending_display_words]_vars

(***************************************************************************)
(* Amplification.                                                          *)
(***************************************************************************)
\* a frame amplified with saturation: every sample times the gain, truncated,
\* clipped to the int16 range
ClippedFrame(frame) ==
    [i \in 1..Len(frame) |-> Clip16(Trunc(frame[i] * gain_factor[1], gain_factor[2]))]

\* C35: amplification clips: the frame sent on the transcription path holds,
\* for every sample s of the source frame, s times the gain truncated to an
\* integer and clipped to [-32768, 32767] (never reduced modulo 2^16), two
\* bytes per sample.
C35_AmplificationClips ==
    [][\A frame \in Frames :
          (AudioCapture(frame) /\ model_loaded_event) =>
              amplified' = amplified \o ToBytes(ClippedFrame(frame))]_vars

\* every amplified frame has the samples of its source frame, two bytes each
AmplifiedFrameLength ==
    [][\A frame \in Frames :
          (AudioCapture(frame) /\ model_loaded_event) =>
              /\ Len(amplified') = Len(amplified) + 2 * Len(frame)
              /\ Len(transcription_queue'[Len(transcription_queue')]) = 2 * Len(frame)]_vars

(***************************************************************************)
(* The capture thread under every gain, the model becoming ready before,   *)
(* between or after the frames, or never.                                  *)
(***************************************************************************)
GainChoices == {<<1, 1>>, <<GainNum, GainDen>>, <<2, 1>>}

InitGain ==
    /\ interval_seconds = <<1, 2>>
    /\ overlap_seconds = <<0, 1>>
    /\ cleanup_strategy = "none"
    /\ wdm_version = "direct"
    /\ gain_factor \in GainChoices
    /\ InitSide
    /\ transcription_history = <<>>
    /\ InitThreads
    /\ InitDisplay
    /\ InitNoDedupCall

NextGain ==
    \/ AudioStart
    \/ \E frame \in Frames : AudioCapture(frame)
    \/ AnimationPoll
    \/ \E ok \in BOOLEAN : TranscriberLoad(ok)
    \/ \E raised \in BOOLEAN : TranscriberReady(raised)

SpecGain == InitGain /\ [][NextGain]_vars

\* what the animation queue holds after a frame of raw samples was offered:
\* the samples over 2^15, unless the queue was full
AfterOffer(q, frame) == IF Len(q) < AnimationQueueMaxsize THEN Append(q, frame) ELSE q

\* C36: animation path independence: in every iteration of the capture loop
\* the sample offered to the animation queue is the raw frame over 2^15,
\* whatever gain_factor is and whether or not the model-ready flag is set;
\* so two runs that read the same frames offer the same samples.
C36_AnimationIndependence ==
    [][\A frame \in Frames :
          AudioCapture(frame) => animation_queue' = AfterOffer(animation_queue, frame)]_vars

\* the gain is 2, the model is ready: a loud frame was put amplified (and out
\* of range) on the transcription queue and, as read, on the animation queue
C36_Witness ==
    /\ gain_factor = <<2, 1>>
    /\ model_loaded_event
    /\ transcription_queue # <<>>
    /\ animation_queue = <<[i \in 1..chunk_size |-> 30000]>>
    /\ FromBuffer(transcription_queue[1]) # animation_queue[1]

(***************************************************************************)
(* ConfigLoader.get.  A value of the configuration is a mapping from names *)
(* to values, a scalar, or None (a section left empty in the file); a name *)
(* and a key are sequences of characters.                                  *)
(***************************************************************************)
Scalar(n) == [kind |-> "scalar", val |-> n, items |-> <<>>]
NoneValue == [kind |-> "none", val |-> 0, items |-> <<>>]
Mapping(f) == [kind |-> "map", val |-> 0, items |-> f]

\* str.split('.'): the pieces between the dots, empty pieces included
RECURSIVE SplitDotsLoop(_, _, _)
SplitDotsLoop(chars, piece, pieces) ==
    IF chars = <<>> THEN Append(pieces, piece)
    ELSE IF Head(chars) = "." THEN SplitDotsLoop(Tail(chars), <<>>, Append(pieces, piece))
    ELSE SplitDotsLoop(Tail(chars), Append(piece, Head(chars)), pieces)
SplitDots(k) == SplitDotsLoop(k, <<>>, <<>>)

\* for k in keys: val = val[k].  A mapping without k raises KeyError; a value
\* that is not a mapping (a number, a string, a list, None) raises TypeError
RECURSIVE Subscript(_, _)
Subscript(val, keys) ==
    IF keys = <<>> THEN [exc |-> "none", val |-> val]
    ELSE IF val.kind # "map" THEN [exc |-> "TypeError", val |-> val]
    ELSE IF Head(keys) \notin DOMAIN val.items THEN [exc |-> "KeyError", val |-> val]
    ELSE Subscript(val.items[Head(keys)], Tail(keys))

\* except KeyError: return default
CaughtByGet == {"KeyError"}

\* ConfigLoader.get(key, default)
ConfigGet ==
    /\ c_pc = "call"
    /\ LET r == Subscript(config, SplitDots(key))
       IN IF r.exc = "none"
          THEN get_result' = r.val /\ c_pc' = "returned"
          ELSE IF r.exc \in CaughtByGet
               THEN get_result' = default /\ c_pc' = "returned"
               ELSE get_result' = get_result /\ c_pc' = r.exc
    /\ UNCHANGED <<config, key, default, agentVars, eyeVars>>
    /\ UNCHANGED <<cfgVars, audioVars, model_loaded_event, transVars, textVars, dedupVars,
                   dispVars, lifeVars>>

\* the sections a file may give: a number, nothing, an empty mapping, a
\* mapping with the leaf w
SectionValues ==
    {Scalar(1), NoneValue, Mapping(<<>>), Mapping([n \in {<<"w">>} |-> Scalar(2)])}
\* the configurations: any of the sections a and c, present or not
Configs ==
    {Mapping(f) : f \in UNION {[D -> SectionValues] : D \in SUBSET {<<"a">>, <<"c">>}}}
\* a.w, a, c.w, a.w.x, b.w and the empty key
ConfigKeys ==
    {<<"a", ".", "w">>, <<"a">>, <<"c", ".", "w">>, <<"a", ".", "w", ".", "x">>,
     <<"b", ".", "w">>, <<>>}
ConfigDefaults == {Scalar(7), NoneValue}

InitConfig ==
    /\ interval_seconds = <<1, 2>>
    /\ overlap_seconds = <<0, 1>>
    /\ cleanup_strategy = "none"
    /\ wdm_version = "queued"
    /\ gain_factor = <<GainNum, GainDen>>
    /\ transcription_history = <<>>
    /\ InitThreads
    /\ InitDisplay
    /\ InitNoDedupCall
    /\ NoAgentQueries
    /\ InitEye
    /\ config \in Configs
    /\ key \in ConfigKeys
    /\ default \in ConfigDefaults
    /\ get_result = NoneValue
    /\ c_pc = "call"

NextConfig == ConfigGet

SpecConfig == InitConfig /\ [][NextConfig]_vars

\* the dotted key leads through mappings to a stored value
RECURSIVE Resolves(_, _)
Resolves(val, keys) ==
    \/ keys = <<>>
    \/ /\ val.kind = "map"
       /\ Head(keys) \in DOMAIN val.items
       /\ Resolves(val.items[Head(keys)], Tail(keys))
\* the value the key leads to
RECURSIVE StoredValue(_, _)
StoredValue(val, keys) ==
    IF keys = <<>> THEN val ELSE StoredValue(val.items[Head(keys)], Tail(keys))

\* C37: configuration fallback: get(key, default) returns the stored value
\* when the dotted key resolves, and returns the default without raising
\* whenever it does not: a missing section, a missing leaf, or an
\* intermediate value that is not a mapping.
C37_ConfigFallback ==
    c_pc # "call" =>
        /\ c_pc = "returned"
        /\ get_result = IF Resolves(config, SplitDots(key))
                        THEN StoredValue(config, SplitDots(key))
                        ELSE default

\* get returns the stored value when the key resolves and the default when a
\* mapping on the way lacks the next name
MissingNameFallsBack ==
    (c_pc # "call" /\ Subscript(config, SplitDots(key)).exc # "TypeError") =>
        /\ c_pc = "returned"
        /\ get_result = IF Resolves(config, SplitDots(key))
                        THEN StoredValue(config, SplitDots(key))
                        ELSE default


(***************************************************************************)
(* The layout of the active list                                           *)
(***************************************************************************)
\* the gap between two neighbours: from the right edge of the first to the
\* left edge of the second
GapAfter(active, i) == active[i + 1].x - (active[i].x + active[i].width)

\* the left-edge eviction test of update, for one word
OffLeft(word_data) == word_data.x + word_data.width < 0

MaxQueries == 3

\* if query: the truth value of a str
QueryTruthyAlways(query) == TRUE
QueryTruthy(query) == query # <<>>

\* EchoLLMAgent.process_query: f"Echo: {query}"
Echo(query) == <<"E", "c", "h", "o", ":", " ">> \o query

\* process_query is abstract: it raises, returns no text, or answers as
\* EchoLLMAgent does
ProcessOutcomes == {"raise", "empty", "echo"}
ProcessQuery(query, outcome) == IF outcome = "echo" THEN Echo(query) ELSE <<>>

\* what one query leaves on the output queue: the lines 35-38 of run, and
\* nothing when process_query raises (except Exception, line 41)
PutResponse(query, outcome) ==
    IF QueryTruthy(query) /\ outcome # "raise" /\ ProcessQuery(query, outcome) # <<>>
    THEN <<ProcessQuery(query, outcome)>>
    ELSE <<>>

\* another thread puts a query on the agent's input queue (handle_event of
\* the display does, on the return key)
AgentQueries == {<<>>, <<"a">>, <<"b">>}
LlmQueryPut(query) ==
    /\ Len(llm_agent_input_queue) + Len(llm_taken) < MaxQueries
    /\ llm_agent_input_queue' = Append(llm_agent_input_queue, query)
    /\ UNCHANGED llm_taken
    /\ UNCHANGED <<lifeVars, cfgVars, lookupVars, eyeVars, audioVars, model_loaded_event, transVars, textVars, dedupVars, dispVars>>

\* one iteration of the loop with a query queued: the get returns it,
\* process_query runs, the answer is put; every exception of process_query
\* is caught and printed, and the loop goes on
LlmProcess(outcome) ==
    /\ l_pc = "get"
    /\ llm_agent_input_queue # <<>>
    /\ llm_agent_input_queue' = Tail(llm_agent_input_queue)
    /\ llm_taken' = Append(llm_taken, <<Head(llm_agent_input_queue), outcome>>)
    /\ llm_agent_output_queue' =
           llm_agent_output_queue \o PutResponse(Head(llm_agent_input_queue), outcome)
    /\ l_pc' = "loop"
    /\ UNCHANGED <<transcribed_text_queue, transcriber_ready_event, llm_response_display_queue>>
    /\ UNCHANGED <<uiVars, fwdVars>>
    /\ UNCHANGED <<runVars, mainVars, warmup, devVars>>
    /\ UNCHANGED <<cfgVars, lookupVars, eyeVars, audioVars, model_loaded_event, transVars, textVars, dedupVars>>

InitAgent ==
    /\ InitDisplayOnly
    /\ wdm_version = "queued"

NextAgent ==
    \/ LlmStart
    \/ LlmGet
    \/ LlmEmpty
    \/ \E outcome \in ProcessOutcomes : LlmProcess(outcome)
    \/ \E query \in AgentQueries : LlmQueryPut(query)
    \/ LlmStop
    \/ LlmExit

SpecAgent == InitAgent /\ [][NextAgent]_vars

\* the responses the claim expects for the queries taken so far
RECURSIVE ExpectedResponses(_)
ExpectedResponses(taken) ==
    IF taken = <<>> THEN <<>>
    ELSE LET query == Head(taken)[1]
             outcome == Head(taken)[2]
         IN (IF query # <<>> /\ outcome = "echo" THEN <<Echo(query)>> ELSE <<>>)
            \o ExpectedResponses(Tail(taken))

\* the agent takes a query in this step
QueryTaken == Len(llm_taken') = Len(llm_taken) + 1

\* C39: the queries leave the input queue in the order they were put; the
\* output queue holds, in the order of the queries, exactly one response for
\* every non-empty query for which process_query returned text and none for
\* an empty query, for a query whose process_query raised or returned no
\* text; and the step that takes a query, whatever process_query does,
\* leaves the thread in its loop with _running unchanged.
C39_AgentResponses ==
    /\ [](llm_agent_output_queue = ExpectedResponses(llm_taken))
    /\ [][QueryTaken =>
              /\ llm_taken'[Len(llm_taken')][1] = Head(llm_agent_input_queue)
              /\ llm_agent_input_queue' = Tail(llm_agent_input_queue)
              /\ Len(llm_agent_output_queue') <= Len(llm_agent_output_queue) + 1
              /\ l_pc' = "loop"
              /\ l_running' = l_running]_vars
    /\ [][llm_agent_output_queue' # llm_agent_output_queue => QueryTaken]_vars

\* an empty query, a query whose process_query raised and a query that was
\* answered have been taken, in this order, and the loop took another turn
C39_Witness ==
    /\ Len(llm_taken) = 3
    /\ llm_taken[1][1] = <<>>
    /\ llm_taken[2] = <<<<"a">>, "raise">>
    /\ llm_taken[3] = <<<<"b">>, "echo">>
    /\ llm_agent_output_queue = <<Echo(<<"b">>)>>
    /\ l_pc = "get"

(***************************************************************************)
(* Eye.update: the blink state machine                                     *)
(***************************************************************************)
\* current_time - since > duration
ElapsedOrEqual(now, since, duration) == now - since >= duration
Elapsed(now, since, duration) == now - since > duration

\* the duration update compares with in each state
StateDuration(state) ==
    CASE state = "IDLE" -> blink_interval
      [] state = "CLOSING" -> blink_close_duration
      [] state = "PAUSED" -> blink_pause_duration
      [] state = "OPENING" -> blink_open_duration

\* the time update measures from in each state
StateSince(state) == IF state = "IDLE" THEN last_blink_time ELSE blink_start_time

\* update(): the if/elif chain on blink_state, at the current ticks
EyeUpdate ==
    /\ IF Elapsed(ticks, StateSince(blink_state), StateDuration(blink_state))
       THEN CASE blink_state = "IDLE" ->
                     /\ blink_state' = "CLOSING"
                     /\ blink_start_time' = ticks
                     /\ UNCHANGED last_blink_time
              [] blink_state = "CLOSING" ->
                     /\ blink_state' = "PAUSED"
                     /\ blink_start_time' = ticks
                     /\ UNCHANGED last_blink_time
              [] blink_state = "PAUSED" ->
                     /\ blink_state' = "OPENING"
                     /\ blink_start_time' = ticks
                     /\ UNCHANGED last_blink_time
              [] blink_state = "OPENING" ->
                     /\ blink_state' = "IDLE"
                     /\ last_blink_time' = ticks
                     /\ UNCHANGED blink_start_time
       ELSE UNCHANGED <<blink_state, blink_start_time, last_blink_time>>
    /\ UNCHANGED blink_interval
    /\ UNCHANGED <<lifeVars, cfgVars, lookupVars, agentVars, audioVars, model_loaded_event, transVars, textVars, dedupVars, dispVars>>

\* set_blink_interval(interval), called by Face.set_emotion
BlinkIntervals == {100, 200}
SetBlinkInterval(interval) ==
    /\ blink_interval' = interval
    /\ UNCHANGED <<blink_state, blink_start_time, last_blink_time>>
    /\ UNCHANGED <<lifeVars, cfgVars, lookupVars, agentVars, audioVars, model_loaded_event, transVars, textVars, dedupVars, dispVars>>

\* pygame's clock advances between two frames
EyeDeltas == {25, 50}
EyeTick(d) ==
    /\ ticks + d <= MaxTicks
    /\ ticks' = ticks + d
    /\ UNCHANGED <<pending_display_words, active_display_words, last_word_display_time, released>>
    /\ UNCHANGED <<queuedVars, fwdVars>>
    /\ UNCHANGED <<lifeVars, cfgVars, sideVars, audioVars, model_loaded_event, transVars, textVars, dedupVars>>

NextBlink ==
    \/ EyeUpdate
    \/ \E interval \in BlinkIntervals : SetBlinkInterval(interval)
    \/ \E d \in EyeDeltas : EyeTick(d)

SpecBlink == InitDisplayOnly /\ [][NextBlink]_vars

\* the edges of the blink cycle
BlinkCycle ==
    {<<"IDLE", "CLOSING">>, <<"CLOSING", "PAUSED">>, <<"PAUSED", "OPENING">>, <<"OPENING", "IDLE">>}

\* C40: blink_state is one of IDLE, CLOSING, PAUSED, OPENING; a step changes
\* it along one edge of the cycle IDLE -> CLOSING -> PAUSED -> OPENING ->
\* IDLE only, so one update makes at most one transition; the step is an
\* update at a time that lies more than the duration of the old state after
\* the time that state was entered (last_blink_time for IDLE), and it
\* records the current time as the entry time of the new state.
C40_BlinkCycle ==
    /\ [](blink_state \in {"IDLE", "CLOSING", "PAUSED", "OPENING"})
    /\ [][blink_state' # blink_state =>
              /\ <<blink_state, blink_state'>> \in BlinkCycle
              /\ ticks' = ticks
              /\ ticks - StateSince(blink_state) > StateDuration(blink_state)
              /\ blink_interval' = blink_interval
              /\ IF blink_state' = "IDLE"
                 THEN last_blink_time' = ticks /\ blink_start_time' = blink_start_time
                 ELSE blink_start_time' = ticks /\ last_blink_time' = last_blink_time]_vars
    /\ [][blink_state' = blink_state =>
              /\ blink_start_time' = blink_start_time
              /\ last_blink_time' = last_blink_time]_vars

\* a whole blink has been made, and the eye has waited exactly blink_interval
\* since: the next update leaves it IDLE
C40_Witness ==
    /\ blink_state = "IDLE"
    /\ last_blink_time > 0
    /\ ticks - last_blink_time = blink_interval
====
